---- MODULE Spec2Model ----
(***************************************************************************)
(* Verification model of tehmaze/vc: the Client path resolver and virtual  *)
(* filesystem (src/client.go) and the two-pass template renderer           *)
(* (src/template.go).                                                      *)
(*                                                                         *)
(* Go strings are modelled as sequences of one-character strings, so that  *)
(* "/a/b" is <<"/", "a", "/", "b">> and the empty string is <<>>.          *)
(***************************************************************************)
EXTENDS Integers, Sequences, FiniteSets, TLC

VARIABLES
    Path,               \* Client.Path
    cachedMounts,       \* Client.cachedMounts
    cachedMountsTime,   \* Client.cachedMountsTime
    now,                \* the wall clock read by time.Now()
    remote,             \* the remote store and the faults of its transport
    last,               \* the last Client operation: name, argument, results, remote calls
    tpl,                \* the template being rendered, as its executed items
    pc,                 \* position of TemplateCommand.Run
    content,            \* the rendered text (first pass output, then substituted)
    lookup,             \* TemplateCommand.lookup
    decode,             \* TemplateCommand.decode
    minted,             \* number of identifiers drawn by randomIdentifier
    todo,               \* paths the running substitution pass has not visited yet
    reads,              \* remote reads issued by this render, in order
    tokens,             \* every templateX call of the first pass with the token it returned
    out,                \* bytes written by cmd.Write
    failure,            \* the error that ended the render, "" when none
    exit,               \* exit code of TemplateCommand.Run, -1 while running
    inMounts,           \* goroutine -> where it stands in Client.mounts
    walk,               \* the parent-walking loop of ReadDir's mount scan
    files,              \* the local file system: name -> file
    writer,             \* the safeOutputWriter
    cmd,                \* the baseCommand of a command writing its output
    codecs,             \* the codec registry: name -> codec
    codecMutex          \* the registry's lock: "unlocked", "locked" or "rlocked"

vars == <<Path, cachedMounts, cachedMountsTime, now, remote, last,
          tpl, pc, content, lookup, decode, minted, todo, reads, tokens, out, failure, exit,
          inMounts, walk, files, writer, cmd, codecs, codecMutex>>

clientVars == <<Path, cachedMounts, cachedMountsTime, now, remote, last>>
templateVars == <<tpl, pc, content, lookup, decode, minted, todo, reads, tokens, out, failure, exit>>
\* the state of the other parts of the program
outputVars == <<files, writer, cmd>>
registryVars == <<codecs, codecMutex>>
restVars == <<inMounts, walk, outputVars, registryVars>>

(***************************************************************************)
(* Bounds                                                                  *)
(***************************************************************************)
MaxLen == 3

PathChars == {"/", ".", "a"}

\* every string over PathChars of at most MaxLen characters
PathStrings == UNION {[1..k -> PathChars] : k \in 0..MaxLen}

(***************************************************************************)
(* strings                                                                 *)
(***************************************************************************)
HasPrefix(s, p) == Len(s) >= Len(p) /\ SubSeq(s, 1, Len(p)) = p

HasSuffix(s, p) == Len(s) >= Len(p) /\ SubSeq(s, Len(s) - Len(p) + 1, Len(s)) = p

RECURSIVE TrimLeft(_, _)
TrimLeft(s, c) == IF s # <<>> /\ Head(s) = c THEN TrimLeft(Tail(s), c) ELSE s

RECURSIVE TrimRight(_, _)
TrimRight(s, c) ==
    IF s # <<>> /\ s[Len(s)] = c THEN TrimRight(SubSeq(s, 1, Len(s) - 1), c) ELSE s

ContainsAny(s, chars) == \E i \in 1..Len(s) : s[i] \in chars

\* index of the last occurrence of c in s, 0 when there is none
LastIndex(s, c) ==
    IF \E i \in 1..Len(s) : s[i] = c
    THEN CHOOSE i \in 1..Len(s) : s[i] = c /\ \A j \in (i+1)..Len(s) : s[j] # c
    ELSE 0

(***************************************************************************)
(* path/filepath (Unix)                                                    *)
(***************************************************************************)
IsAbs(path) == HasPrefix(path, <<"/">>)

\* the ".." case of Clean: drop the last element written to the buffer
RECURSIVE CleanBack(_, _, _)
CleanBack(buf, w, dotdot) ==
    IF w > dotdot /\ buf[w + 1] # "/"
    THEN CleanBack(buf, w - 1, dotdot)
    ELSE SubSeq(buf, 1, w)

\* end (exclusive) of the path element that starts at r
RECURSIVE ElemEnd(_, _)
ElemEnd(path, r) == IF r <= Len(path) /\ path[r] # "/" THEN ElemEnd(path, r + 1) ELSE r

RECURSIVE CleanLoop(_, _, _, _)
CleanLoop(path, r, buf, dotdot) ==
    LET n == Len(path)
        rooted == path[1] = "/"
    IN  IF r > n THEN buf
        ELSE IF path[r] = "/" THEN CleanLoop(path, r + 1, buf, dotdot)
        ELSE IF path[r] = "." /\ (r = n \/ path[r + 1] = "/")
             THEN CleanLoop(path, r + 1, buf, dotdot)
        ELSE IF path[r] = "." /\ path[r + 1] = "." /\ (r + 1 = n \/ path[r + 2] = "/")
             THEN IF Len(buf) > dotdot
                  THEN CleanLoop(path, r + 2, CleanBack(buf, Len(buf) - 1, dotdot), dotdot)
                  ELSE IF ~rooted
                  THEN LET b2 == (IF Len(buf) > 0 THEN buf \o <<"/">> ELSE buf) \o <<".", ".">>
                       IN  CleanLoop(path, r + 2, b2, Len(b2))
                  ELSE CleanLoop(path, r + 2, buf, dotdot)
        ELSE LET b1 == IF (rooted /\ Len(buf) # 1) \/ (~rooted /\ Len(buf) # 0)
                       THEN buf \o <<"/">> ELSE buf
                 e == ElemEnd(path, r)
             IN  CleanLoop(path, e, b1 \o SubSeq(path, r, e - 1), dotdot)

Clean(path) ==
    IF path = <<>> THEN <<".">>
    ELSE LET res == IF path[1] = "/" THEN CleanLoop(path, 2, <<"/">>, 1)
                    ELSE CleanLoop(path, 1, <<>>, 0)
         IN  IF res = <<>> THEN <<".">> ELSE res

\* filepath.Join of two elements
Join(a, b) ==
    IF a # <<>> THEN Clean(a \o <<"/">> \o b)
    ELSE IF b # <<>> THEN Clean(b)
    ELSE <<>>

\* filepath.Split: [dir, file], dir keeps its trailing separator
Split(path) ==
    LET i == LastIndex(path, "/")
    IN  [dir |-> SubSeq(path, 1, i), file |-> SubSeq(path, i + 1, Len(path))]

Dir(path) == Clean(SubSeq(path, 1, LastIndex(path, "/")))

Base(path) ==
    IF path = <<>> THEN <<".">>
    ELSE LET t == TrimRight(path, "/")
         IN  IF t = <<>> THEN <<"/">>
             ELSE SubSeq(t, LastIndex(t, "/") + 1, Len(t))

(***************************************************************************)
(* Client: path resolution                                                 *)
(***************************************************************************)
abspathAlwaysJoin(wd, path) == Clean(Join(wd, path))

\* abspath with an absolute path returned as given
abspathNoClean(wd, path) ==
    IF IsAbs(path) THEN path ELSE Clean(Join(wd, path))

abspath(wd, path) ==
    IF IsAbs(path) THEN Clean(path) ELSE Clean(Join(wd, path))

SetPathValueNoPrefix(path) == Clean(path)

SetPathValue(path) ==
    Clean(IF ~HasPrefix(path, <<"/">>) THEN <<"/">> \o path ELSE path)

(***************************************************************************)
(* The remote store behind api.Client                                      *)
(*   remote.secrets  path -> Data of the secret stored there               *)
(*   remote.lists    path -> keys a list call returns there                *)
(*   remote.mounts   mount name -> mount metadata                          *)
(*   remote.readErr, listErr, mountsErr: what the next call of that kind   *)
(*     answers: "ok", "denied" (an error whose text holds                  *)
(*     "* permission denied") or "other" (any other error)                 *)
(***************************************************************************)
Faults == {"ok", "denied", "other"}

NoErr == "ok"

NilSecret == [kind |-> "nil"]

NilInfo == [kind |-> "nil"]

NoMounts == [n \in {} |-> [name |-> <<>>, type |-> ""]]

genericType == "generic"

\* time.Minute, in minutes
mountRefresh == 1

MaxTime == 4

\* isPermissionDenied that recognises no error
isPermissionDeniedNever(err) == FALSE

isPermissionDenied(err) == err = "denied"

\* Logical().Read
Read(rem, path) ==
    IF rem.readErr # "ok" THEN [secret |-> NilSecret, err |-> rem.readErr]
    ELSE IF path \in DOMAIN rem.secrets
         THEN [secret |-> [kind |-> "secret", at |-> path, Data |-> rem.secrets[path]],
               err |-> NoErr]
         ELSE [secret |-> NilSecret, err |-> NoErr]

\* Logical().List
List(rem, path) ==
    IF rem.listErr # "ok" THEN [secret |-> NilSecret, err |-> rem.listErr]
    ELSE IF path \in DOMAIN rem.lists
         THEN [secret |-> [kind |-> "list", at |-> path, keys |-> rem.lists[path]],
               err |-> NoErr]
         ELSE [secret |-> NilSecret, err |-> NoErr]

\* Sys().ListMounts
ListMounts(rem) ==
    IF rem.mountsErr # "ok" THEN [mounts |-> NoMounts, err |-> rem.mountsErr]
    ELSE [mounts |-> rem.mounts, err |-> NoErr]

(***************************************************************************)
(* Client.mounts: the mount cache                                          *)
(* Result: the mapping and error returned, the cache afterwards, and the   *)
(* remote calls made.                                                      *)
(***************************************************************************)
\* mounts without a cache: every call lists the mounts
mountsAlwaysRefresh(cm, ct, nw, rem) ==
    LET r == ListMounts(rem)
    IN  [mounts |-> r.mounts, err |-> r.err,
         cm |-> IF r.err = NoErr THEN r.mounts ELSE cm,
         ct |-> IF r.err = NoErr THEN nw ELSE ct,
         calls |-> << <<"mounts">> >>]

\* mounts storing whatever the refresh returned, failed or not
mountsStoreOnFailure(cm, ct, nw, rem) ==
    IF nw - mountRefresh > ct
    THEN LET r == ListMounts(rem)
         IN  [mounts |-> r.mounts, err |-> r.err, cm |-> r.mounts, ct |-> nw,
              calls |-> << <<"mounts">> >>]
    ELSE [mounts |-> cm, err |-> NoErr, cm |-> cm, ct |-> ct, calls |-> <<>>]

mounts(cm, ct, nw, rem) ==
    IF nw - mountRefresh > ct
    THEN LET r == ListMounts(rem)
         IN  IF r.err = NoErr
             THEN [mounts |-> r.mounts, err |-> NoErr, cm |-> r.mounts, ct |-> nw,
                   calls |-> << <<"mounts">> >>]
             ELSE [mounts |-> r.mounts, err |-> r.err, cm |-> cm, ct |-> ct,
                   calls |-> << <<"mounts">> >>]
    ELSE [mounts |-> cm, err |-> NoErr, cm |-> cm, ct |-> ct, calls |-> <<>>]

(***************************************************************************)
(* Client.Stat                                                             *)
(* Go iterates a map in an unspecified order, so the mount check may       *)
(* return the entry of any matching mount: Stat is the set of its possible *)
(* outcomes [info, err, calls, cm, ct].                                    *)
(***************************************************************************)
rootInfo == [kind |-> "root", Name |-> <<"/">>, IsDir |-> TRUE]

secretInfo(secret, path, key) ==
    [kind |-> "secret", Name |-> path, Key |-> key, Secret |-> secret,
     IsDir |-> HasSuffix(key, <<"/">>)]

mountInfo(mount, path) ==
    [kind |-> "mount", Name |-> path, Mount |-> mount, IsDir |-> TRUE]

Outcome(info, err, calls, cm, ct) ==
    [info |-> info, err |-> err, calls |-> calls, cm |-> cm, ct |-> ct]

\* the mount loop matching the mounts whose name is a strict prefix of path + "/"
StatMountMatchesAbove(ms, path) ==
    {mountInfo(ms[n], IF <<"/">> \o n = path THEN <<"/">> \o n ELSE path \o <<"/">>) :
        n \in {m \in DOMAIN ms :
                  \/ <<"/">> \o m = path
                  \/ /\ HasPrefix(path \o <<"/">>, <<"/">> \o m)
                     /\ <<"/">> \o m # path \o <<"/">>}}

\* the mount loop of Stat: the returns its iterations can make
StatMountMatches(ms, path) ==
    {mountInfo(ms[n], IF <<"/">> \o n = path THEN <<"/">> \o n ELSE path \o <<"/">>) :
        n \in {m \in DOMAIN ms :
                  \/ <<"/">> \o m = path
                  \/ HasPrefix(<<"/">> \o m, path \o <<"/">>)}}

StatMounts(path, calls, cm, ct, nw, rem) ==
    LET m == mounts(cm, ct, nw, rem)
        cs == calls \o m.calls
    IN  IF m.err # NoErr /\ ~isPermissionDenied(m.err)
        THEN {Outcome(NilInfo, m.err, cs, m.cm, m.ct)}
        ELSE IF StatMountMatches(m.mounts, path) # {}
             THEN {Outcome(i, NoErr, cs, m.cm, m.ct) : i \in StatMountMatches(m.mounts, path)}
             ELSE {Outcome(NilInfo, "ErrNotExist", cs, m.cm, m.ct)}

StatFolder(path, calls, cm, ct, nw, rem) ==
    IF Split(path).dir # <<"/">>
    THEN LET l == List(rem, TrimLeft(path, "/"))
             cs == calls \o << <<"list", TrimLeft(path, "/")>> >>
         IN  IF l.err # NoErr THEN {Outcome(NilInfo, l.err, cs, cm, ct)}
             ELSE IF l.secret # NilSecret
                  THEN {Outcome(secretInfo(l.secret,
                                           TrimRight(Clean(path), "/") \o <<"/">>,
                                           TrimRight(Clean(path), "/") \o <<"/">>),
                                NoErr, cs, cm, ct)}
                  ELSE StatMounts(path, cs, cm, ct, nw, rem)
    ELSE StatMounts(path, calls, cm, ct, nw, rem)

StatNoFastPath(wd, cm, ct, nw, rem, arg) ==
    LET path == abspath(wd, arg)
        r == Read(rem, TrimLeft(path, "/"))
        cs == << <<"read", TrimLeft(path, "/")>> >>
    IN  IF r.err # NoErr /\ ~isPermissionDenied(r.err)
        THEN {Outcome(NilInfo, r.err, cs, cm, ct)}
        ELSE IF r.secret # NilSecret
             THEN {Outcome(secretInfo(r.secret, Clean(path), Base(path)), NoErr, cs, cm, ct)}
             ELSE StatFolder(path, cs, cm, ct, nw, rem)

Stat(wd, cm, ct, nw, rem, arg) ==
    LET path == abspath(wd, arg)
    IN  IF path = <<"/">> THEN {Outcome(rootInfo, NoErr, <<>>, cm, ct)}
        ELSE LET r == Read(rem, TrimLeft(path, "/"))
                 cs == << <<"read", TrimLeft(path, "/")>> >>
             IN  IF r.err # NoErr /\ ~isPermissionDenied(r.err)
                 THEN {Outcome(NilInfo, r.err, cs, cm, ct)}
                 ELSE IF r.secret # NilSecret
                      THEN {Outcome(secretInfo(r.secret, Clean(path), Base(path)),
                                    NoErr, cs, cm, ct)}
                      ELSE StatFolder(path, cs, cm, ct, nw, rem)

(***************************************************************************)
(* Client.ReadDir                                                          *)
(***************************************************************************)
\* the parent-walking loop: [match, base] for the mount called name
RECURSIVE ReadDirWalk(_, _, _)
ReadDirWalk(dir, base, path) ==
    IF Len(dir) >= Len(path)
    THEN IF dir = path THEN [match |-> TRUE, base |-> base]
         ELSE ReadDirWalk(Dir(dir), dir, path)
    ELSE [match |-> FALSE, base |-> base]

\* the mount scan without the test of the mount's type
ReadDirMountInfosAnyType(ms, path) ==
    {mountInfo(ms[n], ReadDirWalk(Dir(<<"/">> \o TrimRight(n, "/")),
                                  <<"/">> \o TrimRight(n, "/"), path).base) :
        n \in {m \in DOMAIN ms :
                  ReadDirWalk(Dir(<<"/">> \o TrimRight(m, "/")),
                              <<"/">> \o TrimRight(m, "/"), path).match}}

\* the entries the mount scan appends, one per matching generic mount
ReadDirMountInfos(ms, path) ==
    {mountInfo(ms[n], ReadDirWalk(Dir(<<"/">> \o TrimRight(n, "/")),
                                  <<"/">> \o TrimRight(n, "/"), path).base) :
        n \in {m \in DOMAIN ms :
                  /\ ms[m].type = genericType
                  /\ ReadDirWalk(Dir(<<"/">> \o TrimRight(m, "/")),
                                 <<"/">> \o TrimRight(m, "/"), path).match}}

\* every order in which a map iteration can visit the members of S
Orders(S) ==
    {f \in [1..Cardinality(S) -> S] : \A i, j \in 1..Cardinality(S) : f[i] = f[j] => i = j}

ReadDirSecrets(secret, path) ==
    [i \in 1..Len(secret.keys) |->
        secretInfo(secret, Clean(Join(TrimRight(path, "/"), secret.keys[i])), secret.keys[i])]

ReadDir(wd, cm, ct, nw, rem, arg) ==
    LET path == abspath(wd, arg)
        m == mounts(cm, ct, nw, rem)
    IN  IF m.err # NoErr /\ ~isPermissionDenied(m.err)
        THEN {[infos |-> <<>>, err |-> m.err, calls |-> m.calls, cm |-> m.cm, ct |-> m.ct]}
        ELSE LET l == List(rem, TrimLeft(path, "/"))
                 cs == m.calls \o << <<"list", TrimLeft(path, "/")>> >>
             IN  IF l.err # NoErr
                 THEN {[infos |-> <<>>, err |-> l.err, calls |-> cs, cm |-> m.cm, ct |-> m.ct]}
                 ELSE {[infos |-> mi \o (IF l.secret # NilSecret
                                         THEN ReadDirSecrets(l.secret, path) ELSE <<>>),
                        err |-> NoErr, calls |-> cs, cm |-> m.cm, ct |-> m.ct] :
                          mi \in Orders(ReadDirMountInfos(m.mounts, path))}

(***************************************************************************)
(* Client.Glob                                                             *)
(***************************************************************************)
RECURSIVE globExpression(_)
globExpression(pattern) ==
    IF pattern = <<>> THEN <<>>
    ELSE (IF Head(pattern) = "?" THEN <<".">>
          ELSE IF Head(pattern) = "*" THEN <<".", "*">>
          ELSE <<Head(pattern)>>) \o globExpression(Tail(pattern))

isGlob(pattern) == ContainsAny(pattern, {"*", "?"})

\* regexp matching of the expressions globExpression yields: "." is any
\* character, ".*" any run of characters, any other character itself; the
\* match starts where the quoted prefix ends and, when anchored, ends at the
\* end of s
RECURSIVE MatchExpr(_, _, _)
MatchExpr(e, s, anchored) ==
    IF e = <<>> THEN (~anchored \/ s = <<>>)
    ELSE IF e[1] = "." /\ Len(e) >= 2 /\ e[2] = "*"
         THEN \E k \in 0..Len(s) :
                 MatchExpr(SubSeq(e, 3, Len(e)), SubSeq(s, k + 1, Len(s)), anchored)
    ELSE IF e[1] = "." THEN s # <<>> /\ MatchExpr(Tail(e), Tail(s), anchored)
    ELSE s # <<>> /\ s[1] = e[1] /\ MatchExpr(Tail(e), Tail(s), anchored)

\* filter.MatchString(name) for the filter compiled from dir and base
MatchString(dir, base, name) ==
    IF dir = <<"/">>
    THEN HasPrefix(name, <<"/">>)
           /\ MatchExpr(globExpression(base), SubSeq(name, 2, Len(name)), FALSE)
    ELSE HasPrefix(name, dir \o <<"/">>)
           /\ MatchExpr(globExpression(base),
                        SubSeq(name, Len(dir) + 2, Len(name)), TRUE)

RECURSIVE GlobFilter(_, _, _)
GlobFilter(items, dir, base) ==
    IF items = <<>> THEN <<>>
    ELSE (IF MatchString(dir, base, Head(items).Name) THEN <<Head(items)>> ELSE <<>>)
            \o GlobFilter(Tail(items), dir, base)

\* the fast path's return: Stat's entry in a one-element slice, with its error
GlobFastPathDropErr(o) ==
    [infos |-> <<o.info>>, err |-> NoErr, calls |-> o.calls, cm |-> o.cm, ct |-> o.ct]

GlobFastPath(o) ==
    [infos |-> <<o.info>>, err |-> o.err, calls |-> o.calls, cm |-> o.cm, ct |-> o.ct]

dirGlobbingStarOnly(dir) == ContainsAny(dir, {"*"})

dirGlobbing(dir) == ContainsAny(dir, {"*", "?"})

Glob(wd, cm, ct, nw, rem, pattern) ==
    IF ~isGlob(pattern)
    THEN {GlobFastPath(o) : o \in Stat(wd, cm, ct, nw, rem, pattern)}
    ELSE LET sp == Split(abspath(wd, pattern))
             dir == IF sp.dir # <<"/">> THEN TrimRight(sp.dir, "/") ELSE sp.dir
         IN  IF dirGlobbing(sp.dir)
             THEN {[infos |-> <<>>, err |-> "directory globbing not supported",
                    calls |-> <<>>, cm |-> cm, ct |-> ct]}
             ELSE {IF r.err # NoErr THEN [r EXCEPT !.infos = <<>>]
                   ELSE [r EXCEPT !.infos = GlobFilter(r.infos, dir, sp.file)] :
                      r \in ReadDir(wd, cm, ct, nw, rem, dir)}

(***************************************************************************)
(* Client operations as actions.  last records what the operation was      *)
(* given, what it returned, the remote calls it made and the mount cache   *)
(* it started from.                                                        *)
(***************************************************************************)
\* the zero time.Time of a fresh Client
ZeroTime == 0

StartTime == ZeroTime + mountRefresh + 1

Record(op, arg, res, info, infos, err, calls) ==
    [op |-> op, arg |-> arg, res |-> res, info |-> info, infos |-> infos,
     err |-> err, calls |-> calls,
     pre |-> [cm |-> cachedMounts, ct |-> cachedMountsTime]]

\* no goroutine is inside Client.mounts
MountsIdle == inMounts = <<>>

\* no mount is being walked
NoWalk == [pc |-> "idle"]

WalkIdle == walk = NoWalk

\* a local file: present or not, its bytes and its permission bits
File(bytes, mode) == [exists |-> TRUE, bytes |-> bytes, mode |-> mode]

NoFile == [exists |-> FALSE, bytes |-> <<>>, mode |-> ""]

\* no output is being written
FilesIdle ==
    /\ files = <<>>
    /\ writer = <<>>
    /\ cmd = <<>>

\* the registry as the package's variables start: no codec, the lock free
RegistryIdle ==
    /\ codecs = <<>>
    /\ codecMutex = "unlocked"

RestIdle == MountsIdle /\ WalkIdle /\ FilesIdle /\ RegistryIdle

TemplateIdle ==
    /\ tpl = <<>>
    /\ pc = "idle"
    /\ content = <<>>
    /\ lookup = <<>>
    /\ decode = <<>>
    /\ minted = 0
    /\ todo = {}
    /\ reads = <<>>
    /\ tokens = <<>>
    /\ out = <<>>
    /\ failure = ""
    /\ exit = -1

\* NewClient
NewClient ==
    /\ Path = <<"/">>
    /\ cachedMounts = NoMounts
    /\ cachedMountsTime = ZeroTime
    /\ now = StartTime
    /\ last = [op |-> "NewClient", arg |-> <<>>, res |-> <<>>, info |-> NilInfo,
               infos |-> <<>>, err |-> NoErr, calls |-> <<>>,
               pre |-> [cm |-> NoMounts, ct |-> ZeroTime]]

SetPath(path) ==
    /\ Path' = SetPathValue(path)
    /\ last' = Record("SetPath", path, <<>>, NilInfo, <<>>, NoErr, <<>>)
    /\ UNCHANGED <<cachedMounts, cachedMountsTime, now, remote>>
    /\ UNCHANGED <<templateVars, restVars>>

Abspath(path) ==
    /\ last' = Record("abspath", path, abspath(Path, path), NilInfo, <<>>, NoErr, <<>>)
    /\ UNCHANGED <<Path, cachedMounts, cachedMountsTime, now, remote>>
    /\ UNCHANGED <<templateVars, restVars>>

DoStat(arg) ==
    /\ \E o \in Stat(Path, cachedMounts, cachedMountsTime, now, remote, arg) :
          /\ cachedMounts' = o.cm
          /\ cachedMountsTime' = o.ct
          /\ last' = Record("Stat", arg, <<>>, o.info, <<>>, o.err, o.calls)
    /\ UNCHANGED <<Path, now, remote>>
    /\ UNCHANGED <<templateVars, restVars>>

DoReadDir(arg) ==
    /\ \E o \in ReadDir(Path, cachedMounts, cachedMountsTime, now, remote, arg) :
          /\ cachedMounts' = o.cm
          /\ cachedMountsTime' = o.ct
          /\ last' = Record("ReadDir", arg, <<>>, NilInfo, o.infos, o.err, o.calls)
    /\ UNCHANGED <<Path, now, remote>>
    /\ UNCHANGED <<templateVars, restVars>>

DoGlob(pattern) ==
    /\ \E o \in Glob(Path, cachedMounts, cachedMountsTime, now, remote, pattern) :
          /\ cachedMounts' = o.cm
          /\ cachedMountsTime' = o.ct
          /\ last' = Record("Glob", pattern, <<>>, NilInfo, o.infos, o.err, o.calls)
    /\ UNCHANGED <<Path, now, remote>>
    /\ UNCHANGED <<templateVars, restVars>>

\* time passes between two operations
Tick ==
    /\ now < MaxTime
    /\ now' = now + 1
    /\ last' = Record("Tick", <<>>, <<>>, NilInfo, <<>>, NoErr, <<>>)
    /\ UNCHANGED <<Path, cachedMounts, cachedMountsTime, remote>>
    /\ UNCHANGED <<templateVars, restVars>>

\* the transport or the server's policy changes what a kind of call answers
SetFault(k, f) ==
    /\ remote[k] # f
    /\ remote' = [remote EXCEPT ![k] = f]
    /\ last' = Record("SetFault", <<>>, <<>>, NilInfo, <<>>, NoErr, <<>>)
    /\ UNCHANGED <<Path, cachedMounts, cachedMountsTime, now>>
    /\ UNCHANGED <<templateVars, restVars>>

(***************************************************************************)
(* SpecPath: path resolution over every string of at most MaxLen           *)
(* characters                                                              *)
(***************************************************************************)
EmptyData == [k \in {} |-> [t |-> "str"]]

NoSecrets == [p \in {} |-> EmptyData]

NoLists == [p \in {} |-> <<>>]

EmptyRemote ==
    [secrets |-> NoSecrets, lists |-> NoLists, mounts |-> NoMounts,
     readErr |-> "ok", listErr |-> "ok", mountsErr |-> "ok"]

InitPath ==
    /\ NewClient
    /\ remote = EmptyRemote
    /\ TemplateIdle
    /\ RestIdle

NextPath ==
    \/ \E p \in PathStrings : SetPath(p)
    \/ \E p \in PathStrings : Abspath(p)

SpecPath == InitPath /\ [][NextPath]_vars

(***************************************************************************)
(* TemplateCommand: the two-pass renderer                                  *)
(*                                                                         *)
(* Text is a sequence of atoms [k, s, p, id]: a piece of literal text, a   *)
(* placeholder token (s its prefix, id the random suffix), a stored string *)
(* value, or the bytes a codec marshalled for the secret at p.  A stored   *)
(* value is [t, v, m]: t is "str" for a string that is no JSON object,     *)
(* "json" for a string holding the JSON object m, "num" for a value that   *)
(* is no string, and, inside JSON, "map" for the object m.                 *)
(***************************************************************************)
MaxItems == 2

Atom(k, s, p, id) == [k |-> k, s |-> s, p |-> p, id |-> id]

TextAtom(s) == Atom("text", s, <<>>, 0)

ValueAtom(v) == Atom("value", v, <<>>, 0)

NoMap == [k \in {} |-> 0]

Str(v) == [t |-> "str", v |-> v, m |-> NoMap]

Num == [t |-> "num", v |-> "1", m |-> NoMap]

Json(v, m) == [t |-> "json", v |-> v, m |-> m]

Map(m) == [t |-> "map", v |-> "", m |-> m]

IsString(val) == val.t \in {"str", "json"}

CodecTypeKey == <<"__TYPE__">>

\* html/template's escaping of literal template text: a '<' that opens no
\* tag is written as "&lt;"
EscapeText(s) == IF s = "<?" THEN "&lt;?" ELSE s

\* randomIdentifier: "_VAULT_" + upper(t) + "_" + 8 random bytes in hex + "_";
\* the n-th draw from crypto/rand is written n, two draws taken to differ
randomIdentifier(t, n) ==
    Atom("token",
         IF t = "string" THEN "_VAULT_STRING_"
         ELSE IF t = "nested" THEN "_VAULT_NESTED_" ELSE "_VAULT_DECODE_",
         <<>>, n)

\* strings.Replace(content, placeholder, value, 1)
ReplaceFirst(text, placeholder, value) ==
    [i \in 1..Len(text) |->
        IF text[i] = placeholder /\ \A j \in 1..(i - 1) : text[j] # placeholder
        THEN value ELSE text[i]]

\* strings.Replace(content, placeholder, value, -1)
Replace(text, placeholder, value) ==
    [i \in 1..Len(text) |-> IF text[i] = placeholder THEN value ELSE text[i]]

\* strings.Split(key, ".")
RECURSIVE SplitDot(_)
SplitDot(key) ==
    IF \E i \in 1..Len(key) : key[i] = "."
    THEN LET i == CHOOSE i \in 1..Len(key) :
                     key[i] = "." /\ \A j \in 1..(i - 1) : key[j] # "."
         IN  <<SubSeq(key, 1, i - 1)>> \o SplitDot(SubSeq(key, i + 1, Len(key)))
    ELSE <<key>>

\* the codec registry after the builtin codecs registered themselves
Codecs == {"json", "yaml", "file"}

\* Codec.Marshal: the file codec needs a string under "contents"
Marshal(codec, path, data) ==
    IF codec = "file" /\ ~(<<"contents">> \in DOMAIN data /\ IsString(data[<<"contents">>]))
    THEN [ok |-> FALSE, bytes |-> Atom("bytes", codec, path, 0)]
    ELSE [ok |-> TRUE, bytes |-> Atom("bytes", codec, path, 0)]

\* first pass -------------------------------------------------------------

Running(at) == pc = at /\ exit = -1

Item == tpl[Len(content) + 1]

InFirstPass == Running("exec") /\ Len(content) < Len(tpl)

Registered(f, path, key, token) == [f |-> f, path |-> path, key |-> key, token |-> token]

\* a literal piece of the template is copied to the output, escaped
EmitText ==
    /\ InFirstPass
    /\ Item.f = "text"
    /\ content' = Append(content, TextAtom(EscapeText(Item.text)))
    /\ UNCHANGED <<tpl, pc, lookup, decode, minted, todo, reads, tokens, out, failure, exit>>
    /\ UNCHANGED <<clientVars, restVars>>

\* templateSecret and templateNested: cmd.lookup[path][key], minted when absent
lookupOrMint(path, key, kind) ==
    IF path \in DOMAIN lookup /\ key \in DOMAIN lookup[path]
    THEN lookup
    ELSE LET kv == IF path \in DOMAIN lookup THEN lookup[path] ELSE NoMap
         IN  [q \in DOMAIN lookup \cup {path} |->
                 IF q = path THEN [k \in DOMAIN kv \cup {key} |->
                                      IF k = key THEN randomIdentifier(kind, minted + 1)
                                      ELSE kv[k]]
                 ELSE lookup[q]]

templateLookup(kind) ==
    LET path == Item.path
        key == Item.key
        fresh == ~(path \in DOMAIN lookup /\ key \in DOMAIN lookup[path])
    IN  /\ lookup' = lookupOrMint(path, key, kind)
        /\ minted' = IF fresh THEN minted + 1 ELSE minted
        /\ content' = Append(content, lookup'[path][key])
        /\ tokens' = Append(tokens, Registered(Item.f, path, key, lookup'[path][key]))
        /\ UNCHANGED <<tpl, pc, decode, todo, reads, out, failure, exit>>
        /\ UNCHANGED <<clientVars, restVars>>

templateSecret ==
    /\ InFirstPass
    /\ Item.f = "secret"
    /\ templateLookup("string")

templateNested ==
    /\ InFirstPass
    /\ Item.f = "nested"
    /\ templateLookup("nested")

templateDecode ==
    /\ InFirstPass
    /\ Item.f = "decode"
    /\ LET path == Item.path
           fresh == path \notin DOMAIN decode
       IN  /\ decode' = IF fresh
                        THEN [q \in DOMAIN decode \cup {path} |->
                                 IF q = path THEN randomIdentifier("decode", minted + 1)
                                 ELSE decode[q]]
                        ELSE decode
           /\ minted' = IF fresh THEN minted + 1 ELSE minted
           /\ content' = Append(content, decode'[path])
           /\ tokens' = Append(tokens, Registered("decode", path, <<>>, decode'[path]))
    /\ UNCHANGED <<tpl, pc, lookup, todo, reads, out, failure, exit>>
    /\ UNCHANGED <<clientVars, restVars>>

\* Run and executeTemplate ---------------------------------------------------

\* the exit code Run returns for the error executeTemplate or Write gave it;
\* a panic ends the process with the Go runtime's status 2
ExitCodeAlwaysSuccess(fail) == 0

ExitCode(fail) == IF fail = "" THEN 0 ELSE IF fail = "panic" THEN 2 ELSE 1

\* Run returns without writing
Fail(kind) ==
    /\ pc' = "done"
    /\ failure' = kind
    /\ exit' = ExitCode(kind)
    /\ content' = <<>>
    /\ UNCHANGED <<tpl, lookup, decode, minted, todo, tokens, out>>
    /\ UNCHANGED <<clientVars, restVars>>

\* t.Execute returns an error
ExecuteFails ==
    /\ InFirstPass
    /\ reads' = reads
    /\ Fail("exec")

\* the passes executeTemplate runs after the first, in its order
NextPass(at) ==
    IF at = "decodes" THEN "secrets" ELSE IF at = "secrets" THEN "nested" ELSE "write"

\* the paths a pass ranges over
PassPaths(at) == IF at = "decodes" THEN DOMAIN decode
                 ELSE IF at \in {"secrets", "nested"} THEN DOMAIN lookup ELSE {}

\* cmd.Client(), then the first substitution pass begins
ClientReady ==
    /\ Running("exec")
    /\ Len(content) = Len(tpl)
    /\ \/ /\ pc' = "decodes"
          /\ todo' = PassPaths("decodes")
          /\ UNCHANGED <<tpl, content, lookup, decode, minted, reads, tokens, out, failure, exit>>
          /\ UNCHANGED <<clientVars, restVars>>
       \/ /\ reads' = reads
          /\ Fail("client")

\* a pass has visited all its paths: the next one begins
PassDone ==
    /\ pc \in {"decodes", "secrets", "nested"}
    /\ exit = -1
    /\ todo = {}
    /\ pc' = NextPass(pc)
    /\ todo' = PassPaths(pc')
    /\ UNCHANGED <<tpl, content, lookup, decode, minted, reads, tokens, out, failure, exit>>
    /\ UNCHANGED <<clientVars, restVars>>

\* what the transport may answer a read with: the payload or an error
ReadAnswers(path) ==
    {Read([remote EXCEPT !.readErr = e], path) : e \in {"ok", "other"}}

Visited(path, text) ==
    /\ content' = text
    /\ todo' = todo \ {path}
    /\ UNCHANGED <<tpl, pc, lookup, decode, minted, tokens, out, failure, exit>>
    /\ UNCHANGED <<clientVars, restVars>>

\* one iteration of executeTemplateDecodes
executeTemplateDecodes(path) ==
    /\ Running("decodes")
    /\ path \in todo
    /\ reads' = Append(reads, path)
    /\ \E r \in ReadAnswers(path) :
          IF r.err # NoErr THEN Fail("read")
          ELSE IF r.secret = NilSecret THEN Fail("notfound")
          ELSE LET data == r.secret.Data
                   rest == [k \in DOMAIN data \ {CodecTypeKey} |-> data[k]]
               IN  IF ~(CodecTypeKey \in DOMAIN data /\ IsString(data[CodecTypeKey]))
                   THEN Fail("keynotfound")
                   ELSE IF data[CodecTypeKey].v \notin Codecs THEN Fail("codec")
                   ELSE IF ~Marshal(data[CodecTypeKey].v, path, rest).ok THEN Fail("marshal")
                   ELSE Visited(path, Replace(content, decode[path],
                                              Marshal(data[CodecTypeKey].v, path, rest).bytes))

\* the keys of kv whose placeholder carries the prefix
KeysWithPrefix(kv, prefix) == {k \in DOMAIN kv : kv[k].s = prefix}

\* the inner loop of executeTemplateSecrets over the keys left
RECURSIVE ReplaceSecrets(_, _, _, _)
ReplaceSecrets(text, kv, keys, data) ==
    IF keys = {} THEN text
    ELSE LET k == CHOOSE k \in keys : TRUE
         IN  ReplaceSecrets(Replace(text, kv[k], ValueAtom(data[k].v)), kv, keys \ {k}, data)

\* one iteration of executeTemplateSecrets
executeTemplateSecrets(path) ==
    /\ Running("secrets")
    /\ path \in todo
    /\ reads' = Append(reads, TrimLeft(path, "/"))
    /\ \E r \in ReadAnswers(TrimLeft(path, "/")) :
          IF r.err # NoErr THEN Fail("read")
          ELSE IF r.secret = NilSecret THEN Fail("notfound")
          ELSE LET data == r.secret.Data
                   keys == KeysWithPrefix(lookup[path], "_VAULT_STRING_")
               IN  IF \E k \in keys : ~(k \in DOMAIN data /\ IsString(data[k]))
                   THEN Fail("keynotfound")
                   ELSE Visited(path, ReplaceSecrets(content, lookup[path], keys, data))

\* the loop of executeTemplateNested over keys[1:]
RECURSIVE NestedWalk(_, _, _)
NestedWalk(mydata, keys, levels) ==
    IF keys = <<>> THEN [res |-> "none", v |-> ""]
    ELSE IF levels > 1
         THEN IF Head(keys) \notin DOMAIN mydata THEN [res |-> "keynotfound", v |-> ""]
              ELSE IF mydata[Head(keys)].t # "map" THEN [res |-> "panic", v |-> ""]
              ELSE NestedWalk(mydata[Head(keys)].m, Tail(keys), levels - 1)
    ELSE IF Head(keys) \in DOMAIN mydata /\ IsString(mydata[Head(keys)])
         THEN [res |-> "ok", v |-> mydata[Head(keys)].v]
         ELSE [res |-> "notstring", v |-> ""]

\* what one key of the inner loop of executeTemplateNested comes to
NestedKey(data, key) ==
    LET keys == SplitDot(key)
    IN  IF ~(keys[1] \in DOMAIN data /\ IsString(data[keys[1]]))
        THEN [res |-> "panic", v |-> ""]
        ELSE IF data[keys[1]].t # "json" THEN [res |-> "json", v |-> ""]
        ELSE NestedWalk(data[keys[1]].m, Tail(keys), Len(keys) - 1)

RECURSIVE ReplaceNested(_, _, _, _)
ReplaceNested(text, kv, keys, data) ==
    IF keys = {} THEN text
    ELSE LET k == CHOOSE k \in keys : TRUE
             o == NestedKey(data, k)
         IN  ReplaceNested(IF o.res = "ok" THEN Replace(text, kv[k], ValueAtom(o.v)) ELSE text,
                           kv, keys \ {k}, data)

\* one iteration of executeTemplateNested; the keys are visited in map order,
\* so the render ends with the error of any key that has one
executeTemplateNested(path) ==
    /\ Running("nested")
    /\ path \in todo
    /\ reads' = Append(reads, TrimLeft(path, "/"))
    /\ \E r \in ReadAnswers(TrimLeft(path, "/")) :
          IF r.err # NoErr THEN Fail("read")
          ELSE IF r.secret = NilSecret THEN Fail("notfound")
          ELSE LET data == r.secret.Data
                   keys == KeysWithPrefix(lookup[path], "_VAULT_NESTED_")
                   bad == {NestedKey(data, k).res : k \in keys} \ {"ok", "none"}
               IN  IF bad # {}
                   THEN \E b \in bad : Fail(b)
                   ELSE Visited(path, ReplaceNested(content, lookup[path], keys, data))

\* cmd.Write([]byte(s)): all of it, or an error after some of it
Write ==
    /\ Running("write")
    /\ pc' = "done"
    /\ \/ /\ out' = content
          /\ failure' = ""
          /\ exit' = ExitCode("")
       \/ /\ \E n \in 0..Len(content) :
                /\ (n < Len(content) \/ n = 0)
                /\ out' = SubSeq(content, 1, n)
          /\ failure' = "write"
          /\ exit' = ExitCode("write")
    /\ UNCHANGED <<tpl, content, lookup, decode, minted, todo, reads, tokens>>
    /\ UNCHANGED <<clientVars, restVars>>

(***************************************************************************)
(* SpecTemplate: one render of a template of at most MaxItems items        *)
(***************************************************************************)
P == <<"p">>

SlashP == <<"/", "p">>

Q == <<"q">>

R == <<"r">>

K == <<"k">>

N == <<"n">>

J == <<"j">>

Dotted(a, b) == a \o <<".">> \o b

\* the JSON object stored as a string under "j" of the secret at p
JsonDoc ==
    [k \in {K, <<"m">>, N} |->
        IF k = K THEN Str("v2")
        ELSE IF k = N THEN Num
        ELSE Map([h \in {K} |-> Str("v3")])]

DataP == [k \in {K, J, N} |->
            IF k = K THEN Str("v1") ELSE IF k = J THEN Json("{j}", JsonDoc) ELSE Num]

DataQ == [k \in {CodecTypeKey, K} |-> IF k = K THEN Str("v4") ELSE Str("json")]

DataFile == [k \in {CodecTypeKey} |-> Str("file")]

DataUnknown == [k \in {CodecTypeKey} |-> Str("toml")]

Secrets(paths) ==
    [p \in paths |-> IF p = P THEN DataP ELSE IF p = Q THEN DataQ ELSE DataFile]

\* the stores a render runs against: every secret present; q absent and r of
\* a type no codec is registered for
TemplateRemotes ==
    {[EmptyRemote EXCEPT !.secrets = Secrets({P, Q, R})],
     [EmptyRemote EXCEPT !.secrets = [p \in {P, R} |-> IF p = P THEN DataP ELSE DataUnknown]]}

Call(f, path, key) == [f |-> f, path |-> path, key |-> key, text |-> ""]

Text(s) == [f |-> "text", path |-> <<>>, key |-> <<>>, text |-> s]

TemplateItems ==
    {Text("T"), Text("<?")}
    \cup {Call("secret", c[1], c[2]) :
            c \in {<<P, K>>, <<P, N>>, <<P, J>>, <<SlashP, K>>, <<Q, K>>}}
    \cup {Call("nested", c[1], c[2]) :
            c \in {<<P, K>>, <<P, J>>, <<P, Dotted(J, K)>>, <<P, Dotted(N, K)>>,
                   <<P, Dotted(J, Dotted(<<"m">>, K))>>, <<P, Dotted(J, Dotted(<<"x">>, K))>>,
                   <<P, Dotted(J, Dotted(K, K))>>, <<P, Dotted(J, <<"m">>)>>,
                   <<Q, Dotted(J, K)>>}}
    \cup {Call("decode", path, <<>>) : path \in {P, Q, R}}

Templates == UNION {[1..n -> TemplateItems] : n \in 0..MaxItems}

\* TemplateCommand after parseTemplate, as executeTemplate begins
InitTemplate ==
    /\ NewClient
    /\ remote \in TemplateRemotes
    /\ tpl \in Templates
    /\ pc = "exec"
    /\ content = <<>>
    /\ lookup = <<>>
    /\ decode = <<>>
    /\ minted = 0
    /\ todo = {}
    /\ reads = <<>>
    /\ tokens = <<>>
    /\ out = <<>>
    /\ failure = ""
    /\ exit = -1
    /\ RestIdle

TemplatePaths == {P, SlashP, Q, R}

NextTemplate ==
    \/ EmitText
    \/ templateSecret
    \/ templateNested
    \/ templateDecode
    \/ ExecuteFails
    \/ ClientReady
    \/ PassDone
    \/ \E path \in TemplatePaths : executeTemplateDecodes(path)
    \/ \E path \in TemplatePaths : executeTemplateSecrets(path)
    \/ \E path \in TemplatePaths : executeTemplateNested(path)
    \/ Write

SpecTemplate == InitTemplate /\ [][NextTemplate]_vars

(***************************************************************************)
(* Template claims                                                         *)
(***************************************************************************)
Calls == {i \in 1..Len(tpl) : tpl[i].f # "text"}

\* the path a reference is fetched under
RemoteKey(item) == IF item.f = "decode" THEN item.path ELSE TrimLeft(item.path, "/")

Referenced == {tpl[i].path : i \in Calls}

Range(seq) == {seq[i] : i \in 1..Len(seq)}

Rendered == pc = "done" /\ failure = ""

\* C1: a render issues as many remote reads as the template references
\* distinct secret paths: each path is read exactly once, however many keys
\* and function kinds reference it.
C1_OneReadPerPath ==
    Rendered =>
        /\ Len(reads) = Cardinality(Referenced)
        /\ \A i, j \in 1..Len(reads) : reads[i] = reads[j] => i = j

AnyAbsent == \E i \in Calls : RemoteKey(tpl[i]) \notin DOMAIN remote.secrets

OnlySecretCalls == \A i \in Calls : tpl[i].f = "secret"

SecretsResolve ==
    \A i \in Calls :
        tpl[i].f = "secret" =>
            /\ RemoteKey(tpl[i]) \in DOMAIN remote.secrets
            /\ tpl[i].key \in DOMAIN remote.secrets[RemoteKey(tpl[i])]
            /\ IsString(remote.secrets[RemoteKey(tpl[i])][tpl[i].key])

\* neither the template engine, the client set-up, the transport nor the
\* output failed
NoOutsideFailure == failure \notin {"exec", "client", "read", "write"}

StoredValue(item) == ValueAtom(remote.secrets[RemoteKey(item)][item.key].v)

SameReference(a, b) == a.f = b.f /\ a.path = b.path /\ a.key = b.key

\* C4: registering a reference in the first pass is idempotent: two calls of
\* the same function with the same path and key return the same token, calls
\* that differ in function kind, path or key return different tokens, and no
\* call fetches anything.
C4_RegistrationIdempotent ==
    /\ \A i, j \in 1..Len(tokens) :
          SameReference(tokens[i], tokens[j]) <=> tokens[i].token = tokens[j].token
    /\ pc = "exec" => reads = <<>>

KindPrefix(f) ==
    IF f = "secret" THEN "_VAULT_STRING_"
    ELSE IF f = "nested" THEN "_VAULT_NESTED_" ELSE "_VAULT_DECODE_"

\* C5: every token carries the prefix of the function kind that returned it:
\* nested(path, key) always returns a nested token and secret(path, key) a
\* string token, whatever calls came before in the render.
C5_TokenPrefixMatchesKind ==
    \A i \in 1..Len(tokens) : tokens[i].token.s = KindPrefix(tokens[i].f)

(***************************************************************************)
(* Path resolution, stated independently of Clean's buffer algorithm: a    *)
(* path is the list of its elements, "." and empty elements vanish, ".."   *)
(* removes the element before it (and stays at the root).                  *)
(***************************************************************************)
RECURSIVE Elements(_)
Elements(s) ==
    IF s = <<>> THEN << <<>> >>
    ELSE LET e == ElemEnd(s, 1)
         IN  IF e > Len(s) THEN <<s>>
             ELSE <<SubSeq(s, 1, e - 1)>> \o Elements(SubSeq(s, e + 1, Len(s)))

RECURSIVE Resolve(_, _)
Resolve(elems, stack) ==
    IF elems = <<>> THEN stack
    ELSE IF Head(elems) \in {<<>>, <<".">>} THEN Resolve(Tail(elems), stack)
    ELSE IF Head(elems) = <<".", ".">>
         THEN Resolve(Tail(elems),
                      IF stack = <<>> THEN stack ELSE SubSeq(stack, 1, Len(stack) - 1))
    ELSE Resolve(Tail(elems), Append(stack, Head(elems)))

RECURSIVE Render(_)
Render(stack) ==
    IF stack = <<>> THEN <<>> ELSE <<"/">> \o Head(stack) \o Render(Tail(stack))

\* the absolute path the elements of s denote
Canonical(s) ==
    LET r == Render(Resolve(Elements(s), <<>>)) IN IF r = <<>> THEN <<"/">> ELSE r

\* absolute, no empty, "." or ".." element, no trailing separator but the root's
IsCleanAbs(s) ==
    /\ s # <<>>
    /\ s[1] = "/"
    /\ (s # <<"/">> =>
          \A i \in 1..Len(Elements(s)) :
             i > 1 => Elements(s)[i] \notin {<<>>, <<".">>, <<".", ".">>})

\* C9: path resolution is idempotent: resolving the result of abspath again,
\* against the same working path, gives the same result.
C9_AbspathIdempotent ==
    last.op = "abspath" => abspath(Path, last.res) = last.res

C9_Witness ==
    /\ last.op = "abspath"
    /\ ~IsAbs(last.arg)
    /\ Path # <<"/">>
    /\ last.res # Path
    /\ last.res # last.arg

\* C10: after SetPath(base) for any base the working path is absolute and
\* clean, and abspath(p) is the absolute cleaned path of p when p is absolute
\* and of the working path joined with p otherwise; the empty and the "."
\* input resolve to the working path; no result ends in a separator but "/".
C10_AbspathResult ==
    /\ last.op = "SetPath" =>
          /\ IsCleanAbs(Path)
          /\ Path = Canonical(<<"/">> \o last.arg)
          /\ (last.arg = <<>> => Path = <<"/">>)
          /\ (last.arg = <<"a">> => Path = <<"/", "a">>)
    /\ last.op = "abspath" =>
          /\ IsCleanAbs(last.res)
          /\ (last.res # <<"/">> => last.res[Len(last.res)] # "/")
          /\ last.res = Canonical(IF last.arg # <<>> /\ last.arg[1] = "/" THEN last.arg
                                  ELSE Path \o <<"/">> \o last.arg)
          /\ (last.arg \in {<<>>, <<".">>} => last.res = Path)
          /\ (Path = <<"/">> /\ last.arg = <<"a">> => last.res = <<"/", "a">>)
          /\ (Path = <<"/">> /\ last.arg = <<".">> => last.res = <<"/">>)
          /\ (Path = <<"/", "a">> /\ last.arg = <<"a">> => last.res = <<"/", "a", "/", "a">>)
          /\ (Path = <<"/">> /\ last.arg = <<"a", "/">> => last.res = <<"/", "a">>)

C10_Witness ==
    /\ last.op = "abspath"
    /\ Path = <<"/", "a">>
    /\ last.arg = <<"a", "/">>
    /\ last.res = <<"/", "a", "/", "a">>

(***************************************************************************)
(* SpecVfs: Stat, ReadDir and Glob against a remote store                  *)
(***************************************************************************)
Mount(name, type) == [name |-> name, type |-> type]

SomeData == [k \in {<<"k">>} |-> [t |-> "str", v |-> "v"]]

\* the store: leaf secrets, listable prefixes, and a mount table with mounts
\* nested below one another, one mount of another type than generic and two
\* names without a trailing separator, one of them with no mount below it
VfsRemote ==
    [secrets |-> [p \in {<<"a", "/", "b">>, <<"a", "/", "a", "/", "b">>,
                         <<"b", "/", "a", "/", "a">>} |-> SomeData],
     lists |-> [p \in {<<"a">>, <<"a", "/", "a">>, <<"b", "/", "a">>} |->
                  IF p = <<"a">> THEN << <<"b">>, <<"a", "/">> >>
                  ELSE IF p = <<"a", "/", "a">> THEN << <<"b">> >>
                  ELSE << <<"a">> >>],
     mounts |-> [n \in {<<"a", "/">>, <<"b">>, <<"b", "/", "a", "/">>,
                        <<"b", "/", "b", "/">>, <<"s">>} |->
                   Mount(n, IF n = <<"s">> THEN "system" ELSE genericType)],
     readErr |-> "ok", listErr |-> "ok", mountsErr |-> "ok"]

\* working paths given to SetPath
VfsBases == {<<"/">>, <<"b", "/", "a">>, <<"a", "*">>}

\* paths given to Stat
StatArgs ==
    {<<"/">>, <<".">>, <<"a", "/", "b">>, <<"/", "a", "/", "a">>, <<"b">>, <<"a">>,
     <<".", ".">>, <<"/", "s">>}

\* paths given to ReadDir
ReadDirArgs == {<<"/">>, <<".">>, <<"/", "a">>, <<"/", "b">>, <<"/", "b", "/", "a">>}

\* patterns given to Glob
GlobArgs ==
    StatArgs \cup
    {<<"*">>, <<"/", "a", "/", "*">>, <<"/", "a", "/", "?">>, <<"/", "b", "*">>,
     <<"*", "/", "a">>, <<"/", "?", "/", "b">>, <<"*", "/", ".", ".", "/", "a">>,
     <<"/", "a", "/", ".", "*">>}

InitVfs ==
    /\ NewClient
    /\ remote = VfsRemote
    /\ TemplateIdle
    /\ RestIdle

NextVfs ==
    \/ \E p \in VfsBases : SetPath(p)
    \/ \E p \in StatArgs : DoStat(p)
    \/ \E p \in ReadDirArgs : DoReadDir(p)
    \/ \E p \in GlobArgs : DoGlob(p)
    \/ Tick
    \/ \E k \in {"readErr", "listErr", "mountsErr"}, f \in Faults : SetFault(k, f)

SpecVfs == InitVfs /\ [][NextVfs]_vars

\* the absolute path a Client operation resolves its argument to
Resolved(wd, arg) ==
    Canonical(IF arg # <<>> /\ arg[1] = "/" THEN arg ELSE wd \o <<"/">> \o arg)

\* everything before the last path component
DirPortion(s) == SubSeq(s, 1, LastIndex(s, "/"))

HasWildcard(s) == \E i \in 1..Len(s) : s[i] = "*" \/ s[i] = "?"

CacheUntouched ==
    /\ cachedMounts = last.pre.cm
    /\ cachedMountsTime = last.pre.ct

\* C6: Stat of a path that resolves to the root "/" returns a directory entry
\* and makes no remote call, whatever the transport would answer and whatever
\* the mount cache holds.
C6_StatRoot ==
    (last.op = "Stat" /\ Resolved(Path, last.arg) = <<"/">>) =>
        /\ last.info.kind = "root"
        /\ last.info.IsDir
        /\ last.err = NoErr
        /\ last.calls = <<>>
        /\ CacheUntouched

C6_Witness ==
    /\ last.op = "Stat"
    /\ last.arg = <<".", ".">>
    /\ Path = <<"/">>
    /\ remote.readErr = "other"
    /\ cachedMountsTime = ZeroTime
    /\ last.info.kind = "root"

\* C7: for a pattern without '*' and '?', Glob makes exactly the remote calls
\* of Stat on that pattern and returns a one-element collection holding
\* Stat's entry, together with Stat's error.
C7_GlobFastPathIsStat ==
    (last.op = "Glob" /\ ~HasWildcard(last.arg)) =>
        \E o \in Stat(Path, last.pre.cm, last.pre.ct, now, remote, last.arg) :
            /\ last.infos = <<o.info>>
            /\ last.err = o.err
            /\ last.calls = o.calls
            /\ cachedMounts = o.cm
            /\ cachedMountsTime = o.ct

C7_Witness ==
    /\ last.op = "Glob"
    /\ last.arg = <<"a">>
    /\ Path = <<"/", "b", "/", "a">>
    /\ remote.readErr = "denied"
    /\ remote.listErr = "other"
    /\ last.err = "other"
    /\ last.infos = <<NilInfo>>
    /\ Len(last.calls) = 2

\* C8 as claimed: whenever the directory portion of the resolved pattern
\* contains '*' or '?', Glob fails with "directory globbing not supported"
\* and makes no remote call.
C8_DirGlobOfResolvedPattern ==
    (last.op = "Glob" /\ HasWildcard(DirPortion(Resolved(Path, last.arg)))) =>
        /\ last.err = "directory globbing not supported"
        /\ last.calls = <<>>

\* C8 as the code has it: for a pattern that itself contains '*' or '?' and
\* whose resolved directory portion contains '*' or '?', Glob fails with
\* "directory globbing not supported", returns no entry, makes no remote call
\* and leaves the mount cache alone.
C8_DirGlobOfPattern ==
    (/\ last.op = "Glob"
     /\ HasWildcard(last.arg)
     /\ HasWildcard(DirPortion(Resolved(Path, last.arg)))) =>
        /\ last.err = "directory globbing not supported"
        /\ last.infos = <<>>
        /\ last.calls = <<>>
        /\ CacheUntouched

C8_Witness ==
    /\ last.op = "Glob"
    /\ last.arg = <<"/", "?", "/", "b">>
    /\ cachedMountsTime = ZeroTime
    /\ last.err = "directory globbing not supported"

(***************************************************************************)
(* ShellCommand: the working path under the shell                          *)
(***************************************************************************)
\* ShellCommand.Run up to the prompt: the optional path argument
ShellStart(args) ==
    /\ Path' = IF Len(args) > 0
               THEN IF HasPrefix(args[1], <<"/">>)
                    THEN abspath(Path, args[1])
                    ELSE abspath(Path, <<"/">> \o args[1])
               ELSE <<"/">>
    /\ last' = Record("shell", IF Len(args) > 0 THEN args[1] ELSE <<>>, <<>>, NilInfo, <<>>,
                      NoErr, <<>>)
    /\ UNCHANGED <<cachedMounts, cachedMountsTime, now, remote>>
    /\ UNCHANGED <<templateVars, restVars>>

\* the longest working path the shell is taken to
MaxPathLen == 6

\* the shell's "cd" line: "cd" alone, or "cd " followed by line[3:]
ShellCd(args) ==
    /\ Len(args) > 0 => Len(abspath(Path, args[1])) <= MaxPathLen
    /\ Path' = IF Len(args) > 0 THEN abspath(Path, args[1]) ELSE <<"/">>
    /\ last' = Record("cd", IF Len(args) > 0 THEN args[1] ELSE <<>>, <<>>, NilInfo, <<>>,
                      NoErr, <<>>)
    /\ UNCHANGED <<cachedMounts, cachedMountsTime, now, remote>>
    /\ UNCHANGED <<templateVars, restVars>>

\* no argument, or one argument
ShellArgs == {<<>>} \cup {<<p>> : p \in PathStrings}

\* what follows "cd " on a line that TrimSpace left longer than "cd"
CdArgs == {<<>>} \cup {<<p>> : p \in PathStrings \ {<<>>}}

NextShell ==
    \/ \E p \in PathStrings : SetPath(p)
    \/ \E a \in ShellArgs : ShellStart(a)
    \/ \E a \in CdArgs : ShellCd(a)

SpecShell == InitPath /\ [][NextShell]_vars

\* C11: the working path is absolute and clean in every reachable state:
\* after construction and after any sequence of SetPath calls, shell
\* start-ups with or without a path argument, and "cd" lines.
C11_WorkingPathClean ==
    /\ IsAbs(Path)
    /\ Clean(Path) = Path
    /\ IsCleanAbs(Path)

C11_Witness ==
    /\ last.op = "cd"
    /\ last.pre.cm = NoMounts
    /\ last.arg = <<".", ".", "/">>
    /\ Path = <<"/", "a">>

(***************************************************************************)
(* SpecMounts: the mount cache under time, faults and a changing mount     *)
(* table                                                                   *)
(***************************************************************************)
\* one call of Client.mounts
DoMounts ==
    /\ LET r == mounts(cachedMounts, cachedMountsTime, now, remote)
       IN  /\ cachedMounts' = r.cm
           /\ cachedMountsTime' = r.ct
           /\ last' = Record("mounts", <<>>, r.mounts, NilInfo, <<>>, r.err, r.calls)
    /\ UNCHANGED <<Path, now, remote>>
    /\ UNCHANGED <<templateVars, restVars>>

\* mount tables the server may hold
MountTables ==
    {VfsRemote.mounts,
     [n \in {<<"a", "/">>} |-> Mount(n, genericType)],
     [n \in {<<"a", "/">>, <<"c", "/">>} |-> Mount(n, genericType)]}

\* an operator mounts or unmounts a backend on the server
Remount(table) ==
    /\ remote.mounts # table
    /\ remote' = [remote EXCEPT !.mounts = table]
    /\ last' = Record("Remount", <<>>, <<>>, NilInfo, <<>>, NoErr, <<>>)
    /\ UNCHANGED <<Path, cachedMounts, cachedMountsTime, now>>
    /\ UNCHANGED <<templateVars, restVars>>

InitMounts ==
    /\ NewClient
    /\ remote = VfsRemote
    /\ TemplateIdle
    /\ RestIdle

NextMounts ==
    \/ DoMounts
    \/ Tick
    \/ \E f \in Faults : SetFault("mountsErr", f)
    \/ \E t \in MountTables : Remount(t)

SpecMounts == InitMounts /\ [][NextMounts]_vars

\* the call came no later than mountRefresh after the cache's timestamp
WithinTTL == now - last.pre.ct <= mountRefresh

\* C12: a call of mounts within the TTL of the last successful refresh
\* returns the cached mapping and lists no mounts remotely; a call after the
\* TTL, or before any successful refresh, lists the mounts exactly once and,
\* when that succeeds, replaces the cache and sets its timestamp to the time
\* of the call.
C12_MountCacheTTL ==
    last.op = "mounts" =>
        /\ WithinTTL =>
              /\ last.calls = <<>>
              /\ last.err = NoErr
              /\ last.res = last.pre.cm
              /\ cachedMounts = last.pre.cm
              /\ cachedMountsTime = last.pre.ct
        /\ (~WithinTTL \/ last.pre.ct = ZeroTime) =>
              /\ last.calls = << <<"mounts">> >>
              /\ last.err = NoErr =>
                    /\ last.res = remote.mounts
                    /\ cachedMounts = remote.mounts
                    /\ cachedMountsTime = now

C12_Witness ==
    /\ last.op = "mounts"
    /\ WithinTTL
    /\ last.pre.ct # ZeroTime
    /\ last.res # remote.mounts
    /\ last.res = cachedMounts
    /\ remote.mountsErr = "ok"

\* C13: when the refresh fails, mounts returns the error and leaves the
\* cached mapping and the cache's timestamp as they were.
C13_RefreshFailureKeepsCache ==
    (last.op = "mounts" /\ last.calls # <<>> /\ remote.mountsErr # "ok") =>
        /\ last.err = remote.mountsErr
        /\ cachedMounts = last.pre.cm
        /\ cachedMountsTime = last.pre.ct

C13_Witness ==
    /\ last.op = "mounts"
    /\ last.err = "other"
    /\ last.calls = << <<"mounts">> >>
    /\ cachedMounts # NoMounts
    /\ cachedMounts # remote.mounts
    /\ cachedMountsTime # ZeroTime

(***************************************************************************)
(* SpecRace: two goroutines inside Client.mounts on one Client             *)
(* Client has no lock (client.go:45-54), so the statements of mounts       *)
(* (client.go:77-84) of two callers interleave freely.  cachedMountsTime   *)
(* is a multi-word time.Time: a check that runs while another goroutine is *)
(* in the middle of storing it reads a torn value, which may compare       *)
(* either way.                                                             *)
(***************************************************************************)
Goroutines == {"command", "completion"}

At(g, where) == g \in DOMAIN inMounts /\ inMounts[g].pc = where

Move(g, where, got, calls) ==
    inMounts' = [inMounts EXCEPT ![g] = [pc |-> where, got |-> got, calls |-> calls]]

\* line 77: the expiry check reads cachedMountsTime
mountsCheck(g) ==
    /\ At(g, "out")
    /\ \E expired \in BOOLEAN :
          /\ \/ \E h \in Goroutines \ {g} : At(h, "storingTime")
             \/ expired = (now - mountRefresh > cachedMountsTime)
          /\ Move(g, IF expired THEN "list" ELSE "cached", NoMounts, 0)
    /\ UNCHANGED <<clientVars, templateVars, walk, outputVars, registryVars>>

\* line 78: the remote call; on an error mounts returns
mountsList(g) ==
    /\ At(g, "list")
    /\ LET r == ListMounts(remote)
       IN  Move(g, IF r.err = NoErr THEN "storeMap" ELSE "out", r.mounts,
                inMounts[g].calls + 1)
    /\ UNCHANGED <<clientVars, templateVars, walk, outputVars, registryVars>>

\* line 80: c.cachedMounts = mounts
mountsStoreMap(g) ==
    /\ At(g, "storeMap")
    /\ cachedMounts' = inMounts[g].got
    /\ Move(g, "storeTime", inMounts[g].got, inMounts[g].calls)
    /\ UNCHANGED <<Path, cachedMountsTime, now, remote, last>>
    /\ UNCHANGED <<templateVars, walk, outputVars, registryVars>>

\* line 81: c.cachedMountsTime = time.Now(), the first words stored
mountsStoreTimeBegin(g) ==
    /\ At(g, "storeTime")
    /\ Move(g, "storingTime", inMounts[g].got, inMounts[g].calls)
    /\ UNCHANGED <<clientVars, templateVars, walk, outputVars, registryVars>>

\* line 81: the store of cachedMountsTime completes, mounts returns
mountsStoreTimeEnd(g) ==
    /\ At(g, "storingTime")
    /\ cachedMountsTime' = now
    /\ Move(g, "out", inMounts[g].got, inMounts[g].calls)
    /\ UNCHANGED <<Path, cachedMounts, now, remote, last>>
    /\ UNCHANGED <<templateVars, walk, outputVars, registryVars>>

\* line 84: mounts = c.cachedMounts, mounts returns
mountsCached(g) ==
    /\ At(g, "cached")
    /\ Move(g, "out", cachedMounts, inMounts[g].calls)
    /\ UNCHANGED <<clientVars, templateVars, walk, outputVars, registryVars>>

InitRace ==
    /\ NewClient
    /\ remote = VfsRemote
    /\ TemplateIdle
    /\ WalkIdle
    /\ FilesIdle
    /\ RegistryIdle
    /\ inMounts = [g \in Goroutines |-> [pc |-> "out", got |-> NoMounts, calls |-> 0]]

NextRace ==
    \/ \E g \in Goroutines :
          \/ mountsCheck(g)
          \/ mountsList(g)
          \/ mountsStoreMap(g)
          \/ mountsStoreTimeBegin(g)
          \/ mountsStoreTimeEnd(g)
          \/ mountsCached(g)
    \/ Tick
    \/ \E f \in Faults : SetFault("mountsErr", f)

SpecRace == InitRace /\ [][NextRace]_vars

\* between reading the cache's timestamp and reading its mapping
Reading(g) == At(g, "cached")

\* between storing the cache's mapping and having stored its timestamp
Replacing(g) == At(g, "storeTime") \/ At(g, "storingTime")

\* C14: with one Client used by a command and by completion callbacks at
\* once, reading and replacing the mount cache exclude each other: no
\* goroutine is reading the cache while another is replacing it, two do not
\* replace it at once, and one refresh lists the mounts exactly once.
C14_MountCacheExclusive ==
    /\ \A g, h \in Goroutines :
          g # h => ~(Replacing(g) /\ (Reading(h) \/ Replacing(h)))
    /\ \A g \in Goroutines :
          /\ inMounts[g].calls <= 1
          /\ Replacing(g) => inMounts[g].calls = 1

(***************************************************************************)
(* SpecWriter: SafeOutputWriter                                            *)
(* files.target is the file at the writer's name, files.temp the temporary *)
(* file ioutil.TempFile creates next to it.                                *)
(***************************************************************************)
MaxBytes == 3

Modes == {"0600", "0644"}

\* what TempFile, Chmod, file.Write and file.Close may answer
Sys == {"ok", "fail"}

\* SafeOutputWriter(name, mode) for a name that is neither stdout nor stderr
SafeOutputWriter(mode) ==
    [name |-> "target", temp |-> "", mode |-> mode, file |-> "nil",
     writes |-> 0, wrote |-> 0, closed |-> FALSE, err |-> NoErr]

\* maybeOpenWriter: the file handle, the temporary file and writer.temp afterwards
maybeOpenWriter(tempFile, chmod) ==
    IF writer.file # "nil"
    THEN [file |-> writer.file, temp |-> writer.temp, on |-> files.temp, err |-> NoErr]
    ELSE IF tempFile # "ok"
         THEN [file |-> "nil", temp |-> writer.temp, on |-> files.temp, err |-> "tempfile"]
    ELSE IF chmod # "ok"
         THEN [file |-> "open", temp |-> writer.temp, on |-> File(<<>>, "0600"), err |-> "chmod"]
    ELSE [file |-> "open", temp |-> ".target.", on |-> File(<<>>, writer.mode), err |-> NoErr]

\* Write(p): n of p's bytes reach the file, short of Len(p) on an error
safeWrite(p, tempFile, chmod, n) ==
    /\ writer # <<>>
    /\ ~writer.closed
    /\ n <= Len(p)
    /\ LET o == maybeOpenWriter(tempFile, chmod)
           m == IF o.err = NoErr THEN n ELSE 0
       IN  /\ Len(o.on.bytes) + m <= MaxBytes
           /\ files' = [files EXCEPT !.temp =
                          IF o.file = "nil" THEN files.temp
                          ELSE [o.on EXCEPT !.bytes = @ \o SubSeq(p, 1, m)]]
           /\ writer' = [writer EXCEPT !.file = o.file, !.temp = o.temp,
                             !.writes = 1, !.wrote = IF @ + m > 0 THEN 1 ELSE 0,
                             !.err = IF o.err # NoErr THEN o.err
                                     ELSE IF m < Len(p) THEN "write" ELSE NoErr]
    /\ UNCHANGED <<clientVars, templateVars, inMounts, walk, cmd, registryVars>>

\* Close: closes the temporary file when one is open
safeClose(close) ==
    /\ writer # <<>>
    /\ ~writer.closed
    /\ writer' = [writer EXCEPT !.file = "nil", !.closed = TRUE,
                      !.err = IF writer.file # "nil" /\ close # "ok" THEN "close" ELSE NoErr]
    /\ UNCHANGED <<clientVars, templateVars, inMounts, walk, files, cmd, registryVars>>

\* what is written in one call
Chunks == {<<>>, <<"h">>, <<"h", "w">>}

\* the target as it was when the writer was made: absent, or an older file
TargetsBefore == {NoFile, File(<<"o">>, "0600")}

InitWriter ==
    /\ NewClient
    /\ remote = EmptyRemote
    /\ TemplateIdle
    /\ MountsIdle
    /\ WalkIdle
    /\ RegistryIdle
    /\ \E t \in TargetsBefore : files = [target |-> t, temp |-> NoFile, was |-> t]
    /\ \E mode \in Modes : writer = SafeOutputWriter(mode)
    /\ cmd = <<>>

NextWriter ==
    \/ \E p \in Chunks, t, c \in Sys, n \in 0..MaxBytes : safeWrite(p, t, c, n)
    \/ \E c \in Sys : safeClose(c)

SpecWriter == InitWriter /\ [][NextWriter]_vars

\* C15: bytes written to a SafeOutputWriter and the writer closed leave a
\* file at the target path with exactly the requested mode; a writer closed
\* without a write leaves no file at the target path; before the first write
\* the target path is as it was before the writer was made.
C15_SafeOutputWriterTarget ==
    /\ (writer.closed /\ writer.wrote > 0 /\ writer.err = NoErr) =>
          /\ files.target.exists
          /\ files.target.mode = writer.mode
    /\ (writer.closed /\ writer.writes = 0) => files.target = files.was
    /\ writer.writes = 0 => files.target = files.was

(***************************************************************************)
(* SpecOutput: cat -o and template -o write their output                   *)
(* The tail of CatCommand.Run and of TemplateCommand.Run: the bytes in     *)
(* cmd.buf go through baseCommand.Write, which opens the temporary file on *)
(* the first call; CatCommand.Run defers baseCommand.Close, which renames  *)
(* it to cmd.out.                                                          *)
(***************************************************************************)
Success == 0
SyntaxError == 1
ClientError == 2
ServerError == 3
SystemError == 4
CodecError == 5

\* writerOpen for a named output: cmd.tmp, cmd.w and the temporary file
writerOpen(tempFile, chmod) ==
    IF tempFile # "ok" THEN [tmp |-> "nil", w |-> "nil", on |-> files.temp, err |-> "tempfile"]
    ELSE IF chmod # "ok"
         THEN [tmp |-> "open", w |-> "tmp", on |-> File(<<>>, "0600"), err |-> "chmod"]
    ELSE [tmp |-> "open", w |-> "tmp", on |-> File(<<>>, cmd.mode), err |-> NoErr]

\* the code Run returns once its write has returned err
WriteCode(name, err) ==
    IF err = NoErr THEN Success ELSE IF name = "cat" THEN SystemError ELSE 1

\* io.Copy(cmd, buf) in cat, cmd.Write([]byte(s)) in template: one call of
\* baseCommand.Write with all the bytes, none for cat's empty buffer; n of
\* the bytes reach the file
cmdWrite(tempFile, chmod, n) ==
    /\ cmd # <<>>
    /\ cmd.pc = "write"
    /\ n <= Len(cmd.buf)
    /\ IF cmd.name = "cat" /\ cmd.buf = <<>>
       THEN /\ cmd' = [cmd EXCEPT !.pc = "close", !.code = Success]
            /\ UNCHANGED files
       ELSE LET o == writerOpen(tempFile, chmod)
                m == IF o.err = NoErr THEN n ELSE 0
                err == IF o.err # NoErr THEN o.err
                       ELSE IF m < Len(cmd.buf) THEN "write" ELSE NoErr
            IN  /\ files' = [files EXCEPT !.temp =
                               IF o.tmp = "nil" THEN files.temp
                               ELSE [o.on EXCEPT !.bytes = SubSeq(cmd.buf, 1, m)]]
                /\ cmd' = [cmd EXCEPT !.tmp = o.tmp, !.w = o.w,
                                      !.pc = IF cmd.name = "cat" THEN "close" ELSE "done",
                                      !.code = WriteCode(cmd.name, err)]
    /\ UNCHANGED <<clientVars, templateVars, inMounts, walk, writer, registryVars>>

\* baseCommand.Close, deferred by CatCommand.Run: its error is printed, the
\* code Run returns is already decided
cmdClose(close, rename) ==
    /\ cmd # <<>>
    /\ cmd.pc = "close"
    /\ cmd' = [cmd EXCEPT !.pc = "done"]
    /\ files' = IF cmd.w # "nil" /\ cmd.tmp # "nil" /\ close = "ok" /\ rename = "ok"
                THEN [files EXCEPT !.target = files.temp, !.temp = NoFile]
                ELSE files
    /\ UNCHANGED <<clientVars, templateVars, inMounts, walk, writer, registryVars>>

\* what the command has to write
Buffers == {<<>>, <<"h">>, <<"h", "w">>, <<"h", "w", "!">>}

InitOutput ==
    /\ NewClient
    /\ remote = EmptyRemote
    /\ TemplateIdle
    /\ MountsIdle
    /\ WalkIdle
    /\ RegistryIdle
    /\ writer = <<>>
    /\ \E t \in TargetsBefore : files = [target |-> t, temp |-> NoFile, was |-> t]
    /\ \E name \in {"cat", "template"}, mode \in Modes, buf \in Buffers :
          /\ Len(buf) <= MaxBytes
          /\ cmd = [name |-> name, out |-> "target", mode |-> mode, buf |-> buf,
                    tmp |-> "nil", w |-> "nil", pc |-> "write", code |-> -1]

NextOutput ==
    \/ \E t, c \in Sys, n \in 0..MaxBytes : cmdWrite(t, c, n)
    \/ \E c, r \in Sys : cmdClose(c, r)

SpecOutput == InitOutput /\ [][NextOutput]_vars

\* C16: a command writing to a named output file that ends successfully has
\* renamed the temporary file into place, so that the target path holds
\* exactly the bytes written; the target path never holds partial content.
C16_OutputRenamedIntoPlace ==
    /\ (cmd.pc = "done" /\ cmd.code = Success /\ cmd.buf # <<>>) =>
          /\ files.target = File(cmd.buf, cmd.mode)
          /\ ~files.temp.exists
    /\ files.target \in {files.was, File(cmd.buf, cmd.mode)}

(***************************************************************************)
(* SpecCodec: the codec registry                                           *)
(* A call takes codecMutex and runs to its end.  RegisterCodec panics on a *)
(* duplicate name before it unlocks, so the lock stays taken; a call made  *)
(* after that would block.                                                 *)
(***************************************************************************)
CodecNames == {"json", "file", "test"}

\* codec values to tell apart
CodecValues == {"c1", "c2"}

NoCodec == "nil"

RegistryCall(op, name, c, res, err) ==
    [op |-> op, arg |-> name, c |-> c, res |-> res, err |-> err, pre |-> codecs]

\* codecs[name] = c
Install(name, c) ==
    [n \in DOMAIN codecs \cup {name} |-> IF n = name THEN c ELSE codecs[n]]

RegistryFrame == UNCHANGED <<Path, cachedMounts, cachedMountsTime, now, remote,
                             templateVars, inMounts, walk, outputVars>>

\* RegisterCodec storing the codec before it panics on a duplicate
RegisterCodecOverwrite(name, c) ==
    /\ codecMutex = "unlocked"
    /\ codecs' = Install(name, c)
    /\ IF name \in DOMAIN codecs
       THEN /\ codecMutex' = "locked"
            /\ last' = RegistryCall("RegisterCodec", name, c, NoCodec, "panic")
       ELSE /\ codecMutex' = "unlocked"
            /\ last' = RegistryCall("RegisterCodec", name, c, NoCodec, NoErr)
    /\ RegistryFrame

RegisterCodec(name, c) ==
    /\ codecMutex = "unlocked"
    /\ IF name \in DOMAIN codecs
       THEN /\ codecs' = codecs
            /\ codecMutex' = "locked"
            /\ last' = RegistryCall("RegisterCodec", name, c, NoCodec, "panic")
       ELSE /\ codecs' = Install(name, c)
            /\ codecMutex' = "unlocked"
            /\ last' = RegistryCall("RegisterCodec", name, c, NoCodec, NoErr)
    /\ RegistryFrame

\* ReplaceCodec: res is the exists flag it returns
ReplaceCodec(name, c) ==
    /\ codecMutex = "unlocked"
    /\ codecs' = Install(name, c)
    /\ codecMutex' = "unlocked"
    /\ last' = RegistryCall("ReplaceCodec", name, c, name \in DOMAIN codecs, NoErr)
    /\ RegistryFrame

CodecFor(name) ==
    /\ codecMutex = "unlocked"
    /\ last' = IF name \in DOMAIN codecs
               THEN RegistryCall("CodecFor", name, NoCodec, codecs[name], NoErr)
               ELSE RegistryCall("CodecFor", name, NoCodec, NoCodec, "nocodec")
    /\ UNCHANGED registryVars
    /\ RegistryFrame

InitCodec ==
    /\ NewClient
    /\ remote = EmptyRemote
    /\ TemplateIdle
    /\ MountsIdle
    /\ WalkIdle
    /\ FilesIdle
    /\ RegistryIdle

NextCodec ==
    \/ \E name \in CodecNames, c \in CodecValues : RegisterCodec(name, c)
    \/ \E name \in CodecNames, c \in CodecValues : ReplaceCodec(name, c)
    \/ \E name \in CodecNames : CodecFor(name)

SpecCodec == InitCodec /\ [][NextCodec]_vars

\* the registrations under every name but one are as before the call
OthersKept(name) ==
    /\ DOMAIN codecs \ {name} = DOMAIN last.pre \ {name}
    /\ \A n \in DOMAIN codecs \ {name} : codecs[n] = last.pre[n]

\* C17: RegisterCodec of a name already registered panics and leaves the
\* registry as it was; CodecFor of a name never registered returns an error
\* and no codec; CodecFor of a registered name returns the codec that the
\* last RegisterCodec or ReplaceCodec of that name installed.
C17_CodecRegistry ==
    /\ last.op = "RegisterCodec" =>
          /\ last.err = "panic" <=> last.arg \in DOMAIN last.pre
          /\ last.err = "panic" => codecs = last.pre
          /\ last.err = NoErr => (codecs[last.arg] = last.c /\ OthersKept(last.arg))
    /\ last.op = "ReplaceCodec" =>
          /\ codecs[last.arg] = last.c
          /\ OthersKept(last.arg)
          /\ last.res = (last.arg \in DOMAIN last.pre)
    /\ last.op = "CodecFor" =>
          /\ codecs = last.pre
          /\ last.arg \notin DOMAIN codecs => (last.err # NoErr /\ last.res = NoCodec)
          /\ last.arg \in DOMAIN codecs => (last.err = NoErr /\ last.res = codecs[last.arg])

C17_Witness ==
    /\ last.op = "RegisterCodec"
    /\ last.err = "panic"
    /\ last.arg = "test"
    /\ last.c = "c2"
    /\ codecs["test"] = "c1"
    /\ "json" \in DOMAIN codecs

(***************************************************************************)
(* MoveCommand, CopyCommand and DeleteCommand: one run of mv, cp and rm    *)
(***************************************************************************)

\* Logical().Write: the store with data at path
LogicalWrite(secrets, path, data) ==
    [p \in DOMAIN secrets \cup {path} |-> IF p = path THEN data ELSE secrets[p]]

\* Logical().Delete: the store without path
LogicalDelete(secrets, path) == [p \in DOMAIN secrets \ {path} |-> secrets[p]]

\* the step of a run at which the environment fails it
Failures == {"none", "client", "read", "check", "write", "delete"}

ErrOf(fail, step) == IF fail = step THEN "other" ELSE NoErr

\* one remote call of a run and its error
RemoteCall(op, path, err) == [op |-> op, path |-> path, err |-> err]

\* what a run leaves: its exit code, the store and the remote calls it made
Done(code, secrets, calls) == [code |-> code, secrets |-> secrets, calls |-> calls]

\* MoveCommand.Run that never looks at the destination
MoveCommandRunForced(secrets, args, force, terminal, confirm, fail) ==
    LET src == args[1]
        dst == args[2]
        source == Read([secrets |-> secrets, readErr |-> ErrOf(fail, "read")], src)
        rd == <<RemoteCall("read", src, source.err)>>
        wr == rd \o <<RemoteCall("write", dst, ErrOf(fail, "write"))>>
        del == wr \o <<RemoteCall("delete", src, ErrOf(fail, "delete"))>>
        written == LogicalWrite(secrets, dst, source.secret.Data)
    IN  IF src = dst THEN Done(0, secrets, <<>>)
        ELSE IF fail = "client" THEN Done(2, secrets, <<>>)
        ELSE IF source.err # NoErr THEN Done(1, secrets, rd)
        ELSE IF source.secret = NilSecret THEN Done(1, secrets, rd)
        ELSE IF fail = "write" THEN Done(1, secrets, wr)
        ELSE IF fail = "delete" THEN Done(1, written, del)
        ELSE Done(0, LogicalDelete(written, src), del)

\* MoveCommand.Run deleting the source before it writes the destination
MoveCommandRunDeleteFirst(secrets, args, force, terminal, confirm, fail) ==
    LET src == args[1]
        dst == args[2]
        source == Read([secrets |-> secrets, readErr |-> ErrOf(fail, "read")], src)
        oldSecret == Read([secrets |-> secrets, readErr |-> ErrOf(fail, "check")], dst)
        rd == <<RemoteCall("read", src, source.err)>>
        chk == IF force THEN rd ELSE rd \o <<RemoteCall("read", dst, oldSecret.err)>>
        del == chk \o <<RemoteCall("delete", src, ErrOf(fail, "delete"))>>
        wr == del \o <<RemoteCall("write", dst, ErrOf(fail, "write"))>>
        deleted == LogicalDelete(secrets, src)
    IN  IF src = dst THEN Done(0, secrets, <<>>)
        ELSE IF fail = "client" THEN Done(2, secrets, <<>>)
        ELSE IF source.err # NoErr THEN Done(1, secrets, rd)
        ELSE IF source.secret = NilSecret THEN Done(1, secrets, rd)
        ELSE IF ~force /\ oldSecret.err # NoErr THEN Done(1, secrets, chk)
        ELSE IF ~force /\ oldSecret.secret # NilSecret /\ ~terminal
             THEN Done(1, secrets, chk)
        ELSE IF ~force /\ oldSecret.secret # NilSecret /\ ~confirm
             THEN Done(0, secrets, chk)
        ELSE IF fail = "delete" THEN Done(1, secrets, del)
        ELSE IF fail = "write" THEN Done(1, deleted, wr)
        ELSE Done(0, LogicalWrite(deleted, dst, source.secret.Data), wr)

\* MoveCommand.Run
MoveCommandRun(secrets, args, force, terminal, confirm, fail) ==
    LET src == args[1]
        dst == args[2]
        source == Read([secrets |-> secrets, readErr |-> ErrOf(fail, "read")], src)
        oldSecret == Read([secrets |-> secrets, readErr |-> ErrOf(fail, "check")], dst)
        rd == <<RemoteCall("read", src, source.err)>>
        chk == IF force THEN rd ELSE rd \o <<RemoteCall("read", dst, oldSecret.err)>>
        wr == chk \o <<RemoteCall("write", dst, ErrOf(fail, "write"))>>
        del == wr \o <<RemoteCall("delete", src, ErrOf(fail, "delete"))>>
        written == LogicalWrite(secrets, dst, source.secret.Data)
    IN  IF src = dst THEN Done(0, secrets, <<>>)
        ELSE IF fail = "client" THEN Done(2, secrets, <<>>)
        ELSE IF source.err # NoErr THEN Done(1, secrets, rd)
        ELSE IF source.secret = NilSecret THEN Done(1, secrets, rd)
        ELSE IF ~force /\ oldSecret.err # NoErr THEN Done(1, secrets, chk)
        ELSE IF ~force /\ oldSecret.secret # NilSecret /\ ~terminal
             THEN Done(1, secrets, chk)
        ELSE IF ~force /\ oldSecret.secret # NilSecret /\ ~confirm
             THEN Done(0, secrets, chk)
        ELSE IF fail = "write" THEN Done(1, secrets, wr)
        ELSE IF fail = "delete" THEN Done(1, written, del)
        ELSE Done(0, LogicalDelete(written, src), del)

\* CopyCommand.Run
CopyCommandRun(secrets, args, force, terminal, confirm, fail) ==
    LET src == TrimLeft(args[1], "/")
        dst == TrimLeft(args[2], "/")
        source == Read([secrets |-> secrets, readErr |-> ErrOf(fail, "read")], src)
        oldSecret == Read([secrets |-> secrets, readErr |-> ErrOf(fail, "check")], dst)
        rd == <<RemoteCall("read", src, source.err)>>
        chk == IF force THEN rd ELSE rd \o <<RemoteCall("read", dst, oldSecret.err)>>
        wr == chk \o <<RemoteCall("write", dst, ErrOf(fail, "write"))>>
    IN  IF args[1] = args[2] THEN Done(Success, secrets, <<>>)
        ELSE IF fail = "client" THEN Done(ClientError, secrets, <<>>)
        ELSE IF source.err # NoErr THEN Done(ServerError, secrets, rd)
        ELSE IF source.secret = NilSecret THEN Done(SyntaxError, secrets, rd)
        ELSE IF ~force /\ oldSecret.err # NoErr THEN Done(SyntaxError, secrets, chk)
        ELSE IF ~force /\ oldSecret.secret # NilSecret /\ ~terminal
             THEN Done(SystemError, secrets, chk)
        ELSE IF ~force /\ oldSecret.secret # NilSecret /\ ~confirm
             THEN Done(Success, secrets, chk)
        ELSE IF fail = "write" THEN Done(ServerError, secrets, wr)
        ELSE Done(Success, LogicalWrite(secrets, dst, source.secret.Data), wr)

\* DeleteCommand.Run
DeleteCommandRun(secrets, args, force, fail) ==
    LET secret == Read([secrets |-> secrets, readErr |-> ErrOf(fail, "read")], args[1])
        rd == IF force THEN <<>> ELSE <<RemoteCall("read", args[1], secret.err)>>
        del == rd \o <<RemoteCall("delete", args[1], ErrOf(fail, "delete"))>>
    IN  IF fail = "client" THEN Done(ClientError, secrets, <<>>)
        ELSE IF ~force /\ secret.err # NoErr THEN Done(ServerError, secrets, rd)
        ELSE IF ~force /\ secret.secret = NilSecret THEN Done(SyntaxError, secrets, rd)
        ELSE IF fail = "delete" THEN Done(ServerError, secrets, del)
        ELSE Done(Success, LogicalDelete(secrets, args[1]), del)

\* one run of a command against the store; confirmf answers only on a terminal
Ran(op, args, force, terminal, confirm, fail, done) ==
    /\ confirm => terminal
    /\ remote' = [remote EXCEPT !.secrets = done.secrets]
    /\ last' = [op |-> op, arg |-> args, force |-> force, terminal |-> terminal,
                confirm |-> confirm, fail |-> fail, code |-> done.code,
                calls |-> done.calls, pre |-> remote.secrets]
    /\ UNCHANGED <<Path, cachedMounts, cachedMountsTime, now, templateVars, restVars>>

DoMove(args, force, terminal, confirm, fail) ==
    Ran("mv", args, force, terminal, confirm, fail,
        MoveCommandRun(remote.secrets, args, force, terminal, confirm, fail))

DoCopy(args, force, terminal, confirm, fail) ==
    /\ fail # "delete"
    /\ Ran("cp", args, force, terminal, confirm, fail,
           CopyCommandRun(remote.secrets, args, force, terminal, confirm, fail))

DoDelete(args, force, fail) ==
    /\ fail \notin {"check", "write"}
    /\ Ran("rm", args, force, FALSE, FALSE, fail,
           DeleteCommandRun(remote.secrets, args, force, fail))

\* the arguments of mv and rm, and those of cp
MoveArgs == {P, Q}

CopyArgs == {P, <<"/", "q">>}

InitCommands ==
    /\ NewClient
    /\ remote = [EmptyRemote EXCEPT !.secrets = Secrets({P, Q})]
    /\ TemplateIdle
    /\ RestIdle

NextCommands ==
    \/ \E a, b \in MoveArgs, force, terminal, confirm \in BOOLEAN, fail \in Failures :
          DoMove(<<a, b>>, force, terminal, confirm, fail)
    \/ \E a, b \in CopyArgs, force, terminal, confirm \in BOOLEAN, fail \in Failures :
          DoCopy(<<a, b>>, force, terminal, confirm, fail)
    \/ \E a \in MoveArgs, force \in BOOLEAN, fail \in Failures :
          DoDelete(<<a>>, force, fail)

SpecCommands == InitCommands /\ [][NextCommands]_vars

\* the store keys of the last run's source and destination
KeyOf(arg) == IF last.op = "cp" THEN TrimLeft(arg, "/") ELSE arg

Overwriting == last.op \in {"mv", "cp"}

\* force off, destination present, no terminal
Refusable ==
    /\ Overwriting
    /\ ~last.force
    /\ ~last.terminal
    /\ KeyOf(last.arg[2]) \in DOMAIN last.pre

\* the run fails and leaves the store alone: no write, no delete
Refused ==
    /\ last.code # Success
    /\ remote.secrets = last.pre
    /\ \A i \in DOMAIN last.calls : last.calls[i].op = "read"

\* with force the only read is that of the source, and a run that nothing
\* fails leaves the source's data at the destination
ForceOverwrites ==
    (Overwriting /\ last.force) =>
        /\ \A i \in DOMAIN last.calls : last.calls[i].op = "read" => i = 1
        /\ (/\ last.arg[1] # last.arg[2]
            /\ last.fail = "none"
            /\ KeyOf(last.arg[1]) \in DOMAIN last.pre) =>
               /\ last.code = Success
               /\ KeyOf(last.arg[2]) \in DOMAIN remote.secrets
               /\ remote.secrets[KeyOf(last.arg[2])] = last.pre[KeyOf(last.arg[1])]

C19_ExitCodes ==
    last.op \in {"mv", "cp", "rm"} =>
        /\ (last.fail = "client" /\ (last.op = "rm" \/ last.arg[1] # last.arg[2]))
              => last.code = ClientError
        /\ (\E i \in DOMAIN last.calls : last.calls[i].err # NoErr)
              => last.code = ServerError
        /\ (last.calls # <<>> /\ last.calls[Len(last.calls)].op \in {"write", "delete"}
            /\ last.calls[Len(last.calls)].err = NoErr) => last.code = Success

\* the last operation made a remote call of this kind
Called(kind) == \E i \in DOMAIN last.calls : last.calls[i][1] = kind

LastCall == last.calls[Len(last.calls)][1]

LastPath == Resolved(Path, last.arg)

\* the mapping the last operation's c.mounts() returned
MountsSeen ==
    IF Called("mounts") /\ remote.mountsErr # NoErr THEN NoMounts ELSE cachedMounts

\* the last operation was a Stat of a path other than the root that found
\* neither a leaf secret nor a listable prefix, and whose mount refresh, if
\* any, did not fail fatally
NoLeafNoList ==
    /\ last.op = "Stat"
    /\ LastPath # <<"/">>
    /\ \/ remote.readErr = "denied"
       \/ remote.readErr = NoErr /\ TrimLeft(LastPath, "/") \notin DOMAIN remote.secrets
    /\ \/ DirPortion(LastPath) = <<"/">>
       \/ remote.listErr = NoErr /\ TrimLeft(LastPath, "/") \notin DOMAIN remote.lists
    /\ ~(Called("mounts") /\ remote.mountsErr = "other")

\* the mounts named exactly as the path, those below it, and those whose
\* name is a strict prefix of path + "/"
MountsAt == {n \in DOMAIN MountsSeen : <<"/">> \o n = LastPath}

MountsBelow == {n \in DOMAIN MountsSeen : HasPrefix(<<"/">> \o n, LastPath \o <<"/">>)}

MountsAbove ==
    {n \in DOMAIN MountsSeen :
        /\ HasPrefix(LastPath \o <<"/">>, <<"/">> \o n)
        /\ <<"/">> \o n # LastPath \o <<"/">>}

IsMountEntry(name, among) ==
    /\ last.err = NoErr
    /\ last.info.kind = "mount"
    /\ last.info.IsDir
    /\ last.info.Name = name
    /\ \E n \in among : last.info.Mount = MountsSeen[n]

NotFound == last.err = "ErrNotExist" /\ last.info = NilInfo

\* C21 as stated: the mount check returns a mount entry when a mount's name
\* equals the path, a synthetic entry at path + "/" when a mount's name is a
\* strict prefix of path + "/", and "not found" otherwise.
C21_MountNamePrefixOfPath ==
    NoLeafNoList =>
        /\ MountsAt # {} =>
              (IsMountEntry(LastPath, MountsAt)
                 \/ IsMountEntry(LastPath \o <<"/">>, DOMAIN MountsSeen))
        /\ (MountsAt = {} /\ MountsAbove # {}) =>
              IsMountEntry(LastPath \o <<"/">>, MountsAbove)
        /\ (MountsAt = {} /\ MountsAbove = {}) => NotFound

\* C21: the mount check returns a mount entry when a mount's name equals the
\* path or path + "/" is a prefix of a mount's name: the entry of a mount of
\* the first kind is named as the path, that of a mount of the second kind is
\* a synthetic one named path + "/"; with no such mount Stat fails with
\* "not found".
C21_PathPrefixOfMountName ==
    NoLeafNoList =>
        /\ (MountsAt # {} \/ MountsBelow # {}) =>
              (IsMountEntry(LastPath, MountsAt)
                 \/ IsMountEntry(LastPath \o <<"/">>, MountsBelow))
        /\ (MountsAt = {} /\ MountsBelow = {}) => NotFound

\* Stat of /b/a/b: the mount b/a/ lies above the path, none at or below it
C21_Witness ==
    /\ NoLeafNoList
    /\ LastPath = <<"/", "b", "/", "a", "/", "b">>
    /\ <<"b", "/", "a", "/">> \in DOMAIN MountsSeen
    /\ NotFound

(***************************************************************************)
(* ReadDir's mount scan                                                    *)
(***************************************************************************)
\* the elements of an absolute path
Stack(s) == Resolve(Elements(s), <<>>)

\* the mount called n lies below the last operation's path
Lands(n) ==
    /\ Len(Stack(<<"/">> \o n)) > Len(Stack(LastPath))
    /\ SubSeq(Stack(<<"/">> \o n), 1, Len(Stack(LastPath))) = Stack(LastPath)

\* the child of the path on the way to the mount called n
ChildTowards(n) == Render(SubSeq(Stack(<<"/">> \o n), 1, Len(Stack(LastPath)) + 1))

\* the mount entries the last ReadDir returned
MountEntries == {i \in DOMAIN last.infos : last.infos[i].kind = "mount"}

\* the last ReadDir returned one mount entry for every mount of among, named
\* as the child of the path on the way to it, and no other mount entry
OneEntryEach(among) ==
    /\ Cardinality(MountEntries) = Cardinality(among)
    /\ {last.infos[i] : i \in MountEntries} =
          {mountInfo(MountsSeen[n], ChildTowards(n)) : n \in among}

\* C22 as stated: ReadDir returns one mount entry for every mount of the
\* cache whose parents lead to the path, named as the immediate child of the
\* path on the way to the mount; the other mounts contribute nothing.
C22_OneEntryPerMountBelow ==
    (last.op = "ReadDir" /\ last.err = NoErr) =>
        OneEntryEach({n \in DOMAIN MountsSeen : Lands(n)})

\* C22: ReadDir returns one mount entry for every mount of the generic type
\* whose parents lead to the path, named as the immediate child of the path
\* on the way to the mount; mounts of another type and mounts whose parents
\* never reach the path contribute nothing.
C22_OneEntryPerGenericMountBelow ==
    (last.op = "ReadDir" /\ last.err = NoErr) =>
        OneEntryEach({n \in DOMAIN MountsSeen :
                         MountsSeen[n].type = genericType /\ Lands(n)})

\* ReadDir of the root: a/ and b are children, b/a/ and b/b/ surface as b,
\* the system mount s is left out
C22_Witness ==
    /\ last.op = "ReadDir"
    /\ LastPath = <<"/">>
    /\ last.err = NoErr
    /\ <<"s">> \in DOMAIN MountsSeen
    /\ Cardinality(MountEntries) = 4
    /\ \E i \in MountEntries :
          /\ last.infos[i].Name = <<"/", "b">>
          /\ last.infos[i].Mount.name = <<"b", "/", "b", "/">>

(***************************************************************************)
(* Glob's filter, stated on the pattern itself                             *)
(***************************************************************************)
\* s matches the wildcard pattern p: "?" is any one character, "*" any run of
\* characters, any other character itself; with prefix, a match of a prefix
\* of s is enough
RECURSIVE WildcardMatch(_, _, _)
WildcardMatch(p, s, prefix) ==
    IF p = <<>> THEN (prefix \/ s = <<>>)
    ELSE IF Head(p) = "*"
         THEN \E k \in 0..Len(s) : WildcardMatch(Tail(p), SubSeq(s, k + 1, Len(s)), prefix)
    ELSE IF Head(p) = "?" THEN s # <<>> /\ WildcardMatch(Tail(p), Tail(s), prefix)
    ELSE s # <<>> /\ Head(s) = Head(p) /\ WildcardMatch(Tail(p), Tail(s), prefix)

\* the directory and the base name of the last operation's resolved pattern
PatternDir ==
    IF DirPortion(LastPath) = <<"/">> THEN <<"/">>
    ELSE SubSeq(LastPath, 1, LastIndex(LastPath, "/") - 1)

PatternBase == SubSeq(LastPath, LastIndex(LastPath, "/") + 1, Len(LastPath))

\* the entry named name is a child of PatternDir that the base name selects
Selected(name) ==
    LET under == IF PatternDir = <<"/">> THEN <<"/">> ELSE PatternDir \o <<"/">>
    IN  /\ HasPrefix(name, under)
        /\ WildcardMatch(PatternBase, SubSeq(name, Len(under) + 1, Len(name)),
                         PatternDir = <<"/">>)

RECURSIVE SelectedOf(_)
SelectedOf(infos) ==
    IF infos = <<>> THEN <<>>
    ELSE (IF Selected(Head(infos).Name) THEN <<Head(infos)>> ELSE <<>>)
            \o SelectedOf(Tail(infos))

\* C23 as stated: for a wildcard pattern whose directory holds no wildcard,
\* Glob returns exactly the entries of ReadDir(directory) whose name matches
\* the base name, "?" matching any one character, "*" any run of characters
\* and every other character only itself; directly under the root a match of
\* a prefix of the name is enough.
C23_GlobSelectsByWildcard ==
    (last.op = "Glob" /\ isGlob(last.arg) /\ ~HasWildcard(DirPortion(LastPath))) =>
        \E r \in ReadDir(Path, last.pre.cm, last.pre.ct, now, remote, PatternDir) :
            /\ last.err = r.err
            /\ last.calls = r.calls
            /\ last.infos = IF r.err = NoErr THEN SelectedOf(r.infos) ELSE <<>>

(***************************************************************************)
(* Template references that do not resolve                                 *)
(***************************************************************************)
\* the string at the end of the keys, walked through nested maps
RECURSIVE WalksToString(_, _)
WalksToString(m, keys) ==
    /\ keys # <<>>
    /\ Head(keys) \in DOMAIN m
    /\ IF Len(keys) = 1 THEN IsString(m[Head(keys)])
       ELSE m[Head(keys)].t = "map" /\ WalksToString(m[Head(keys)].m, Tail(keys))

\* the reference resolves to a string of the secret's payload
ResolvesToString(item, data) ==
    IF item.f = "secret" THEN item.key \in DOMAIN data /\ IsString(data[item.key])
    ELSE LET keys == SplitDot(item.key)
         IN  /\ keys[1] \in DOMAIN data
             /\ data[keys[1]].t = "json"
             /\ WalksToString(data[keys[1]].m, Tail(keys))

\* a secret or nested reference to a stored secret that resolves to no string
Unresolvable ==
    {i \in Calls :
        /\ tpl[i].f \in {"secret", "nested"}
        /\ RemoteKey(tpl[i]) \in DOMAIN remote.secrets
        /\ ~ResolvesToString(tpl[i], remote.secrets[RemoteKey(tpl[i])])}

\* C24 as stated: a render never ends in a crash, and a render of a template
\* with a secret or nested reference that resolves to no string ends with an
\* error and writes nothing.
C24_UnresolvedEndsInError ==
    pc = "done" =>
        /\ failure # "panic"
        /\ Unresolvable # {} => (failure # "" /\ exit # 0 /\ out = <<>>)

\* C25 as stated: the text a successful render returns holds no placeholder
\* token.
C25_NoPlaceholderLeft ==
    Rendered => \A i \in DOMAIN out : out[i].k # "token"

(***************************************************************************)
(* mv: the order of the write and the delete                               *)
(***************************************************************************)
\* every delete call of the last run comes right after a write of the
\* destination that succeeded
DeleteFollowsWrite ==
    \A i \in DOMAIN last.calls :
        last.calls[i].op = "delete" =>
            /\ last.calls[i].path = last.arg[1]
            /\ i > 1
            /\ last.calls[i - 1] = RemoteCall("write", last.arg[2], NoErr)

\* the last run removed its source from the store
SourceRemoved ==
    /\ last.arg[1] \in DOMAIN last.pre
    /\ last.arg[1] \notin DOMAIN remote.secrets

\* the destination holds what the source held before the run
DestinationHoldsSource ==
    /\ last.arg[1] \in DOMAIN last.pre
    /\ last.arg[2] \in DOMAIN remote.secrets
    /\ remote.secrets[last.arg[2]] = last.pre[last.arg[1]]

\* the source is gone and the destination holds its payload
Moved == last.arg[1] \notin DOMAIN remote.secrets /\ DestinationHoldsSource

\* C26 as stated: mv deletes the source only after a successful write of the
\* destination, the source is removed only when the destination holds its
\* data, and after a mv that exits with 0 the source is absent and the
\* destination equals the former source payload.
C26_SuccessfulMoveMoves ==
    last.op = "mv" =>
        /\ DeleteFollowsWrite
        /\ SourceRemoved => DestinationHoldsSource
        /\ last.code = 0 => Moved

\* C26: mv deletes the source only after a successful write of the
\* destination, the source is removed only when the destination holds its
\* data, and after a mv that exits with 0 having made its delete call the
\* source is absent and the destination equals the former source payload; a
\* mv of a path onto itself, and one declined at the overwrite prompt, exit
\* with 0 and leave the store as it was.
C26_CompletedMoveMoves ==
    last.op = "mv" =>
        /\ DeleteFollowsWrite
        /\ SourceRemoved => DestinationHoldsSource
        /\ last.code = 0 =>
              IF \E i \in DOMAIN last.calls : last.calls[i].op = "delete"
              THEN Moved
              ELSE /\ remote.secrets = last.pre
                   /\ \/ last.arg[1] = last.arg[2]
                      \/ last.terminal /\ ~last.confirm /\ ~last.force

\* mv p q over an existing q, confirmed at the prompt
C26_Witness ==
    /\ last.op = "mv"
    /\ last.arg = <<P, Q>>
    /\ Q \in DOMAIN last.pre
    /\ last.confirm
    /\ last.code = 0
    /\ Len(last.calls) = 4
    /\ Moved

\* C27 as stated: ReadDir returns no two entries of the same name.
C27_ReadDirNamesDistinct ==
    last.op = "ReadDir" =>
        \A i, j \in DOMAIN last.infos :
            last.infos[i].Name = last.infos[j].Name => i = j

\* C28 as stated: the entry Stat's mount check returns is the same in every
\* order the mounts can be iterated in.
C28_StatMountCheckDeterministic ==
    NoLeafNoList =>
        \A o \in Stat(Path, last.pre.cm, last.pre.ct, now, remote, last.arg) :
            o.info = last.info

\* C29 as stated: after a RegisterCodec that panicked on a duplicate name the
\* registry lock is free, so that the next registry call can take it.
C29_LockReleasedAfterPanic ==
    (last.op = "RegisterCodec" /\ last.err = "panic") =>
        /\ codecMutex = "unlocked"
        /\ \E name \in CodecNames : ENABLED CodecFor(name)

(***************************************************************************)
(* ReadDir's mount scan, one iteration of the parent-walking loop at a     *)
(* time                                                                    *)
(***************************************************************************)
WalkFrame == UNCHANGED <<clientVars, templateVars, inMounts, outputVars, registryVars>>

\* the loop whose candidate directory stays where it is
WalkStepStuck ==
    /\ walk.pc = "loop"
    /\ Len(walk.dir) >= Len(walk.path)
    /\ walk' = IF walk.dir = walk.path
               THEN [walk EXCEPT !.pc = "done", !.match = TRUE]
               ELSE [walk EXCEPT !.base = walk.dir, !.steps = walk.steps + 1]
    /\ WalkFrame

\* ReadDir resolves its argument and the scan comes to the mount called name:
\* name, base and dir as the loop finds them
WalkBegin(arg, name) ==
    /\ walk.pc = "idle"
    /\ walk' = [pc |-> "loop",
                path |-> abspath(Path, arg),
                name |-> <<"/">> \o TrimRight(name, "/"),
                base |-> <<"/">> \o TrimRight(name, "/"),
                dir |-> Dir(<<"/">> \o TrimRight(name, "/")),
                match |-> FALSE,
                steps |-> 0]
    /\ WalkFrame

\* the loop condition holds: the body breaks on a match or moves to the parent
WalkStep ==
    /\ walk.pc = "loop"
    /\ Len(walk.dir) >= Len(walk.path)
    /\ walk' = IF walk.dir = walk.path
               THEN [walk EXCEPT !.pc = "done", !.match = TRUE]
               ELSE [walk EXCEPT !.base = walk.dir, !.dir = Dir(walk.dir),
                                 !.steps = walk.steps + 1]
    /\ WalkFrame

\* the loop condition fails
WalkExit ==
    /\ walk.pc = "loop"
    /\ Len(walk.dir) < Len(walk.path)
    /\ walk' = [walk EXCEPT !.pc = "done"]
    /\ WalkFrame

\* the scan goes on to the next mount
WalkNext ==
    /\ walk.pc = "done"
    /\ walk' = NoWalk
    /\ WalkFrame

\* working paths, ReadDir arguments and mount names
WalkBases == {<<"/">>, <<"a">>, <<"/", "a", "/", "a">>, <<".", ".">>}

WalkArgs == {<<>>, <<".">>, <<"a">>, <<"b">>, <<".", ".">>, <<"/", "a", "/", "/">>}

InitWalk ==
    /\ NewClient
    /\ remote = EmptyRemote
    /\ TemplateIdle
    /\ RestIdle

NextWalk ==
    \/ \E p \in WalkBases : SetPath(p)
    \/ \E arg \in WalkArgs, name \in PathStrings : WalkBegin(arg, name)
    \/ WalkStep
    \/ WalkExit
    \/ WalkNext

\* the loop runs on its own: a goroutine in it is scheduled
SpecWalk ==
    /\ InitWalk
    /\ [][NextWalk]_vars
    /\ WF_vars(WalkStep)
    /\ WF_vars(WalkExit)

\* C30: for every mount name and every path abspath yields from an absolute
\* working path, each iteration of the parent-walking loop that does not
\* break strictly shortens the candidate directory, and the loop ends: with
\* a match when the directory equals the path, without one when it has
\* become shorter than the path.
C30_WalkTerminates ==
    /\ [][(walk.pc = "loop" /\ walk'.pc = "loop") => Len(walk'.dir) < Len(walk.dir)]_walk
    /\ [](walk.pc = "done" =>
            IF walk.match THEN walk.dir = walk.path
            ELSE Len(walk.dir) < Len(walk.path))
    /\ (walk.pc = "loop") ~> (walk.pc = "done")

\* the mount a/a/ walked up to the root: one move to the parent, then the match
C30_Witness ==
    /\ walk.pc = "done"
    /\ walk.match
    /\ walk.name = <<"/", "a", "/", "a">>
    /\ walk.path = <<"/">>
    /\ walk.steps = 1
    /\ IsAbs(Path)

====
